---- MODULE Spec2Model ----
(***************************************************************************)
(* NukeNodeMailer: peer discovery (models/discovery.py, ClientDiscovery),  *)
(* direct messaging (models/messaging.py, DirectMessaging), the mail       *)
(* history (models/history_storage.py, HistoryStorage), the controller's   *)
(* send_mail and mail_received with their windows, and the earlier         *)
(* ClientDiscoveryModel (networking/discovery.py).                         *)
(*                                                                         *)
(* Text is a sequence of Unicode code points, the wire is a sequence of    *)
(* bytes (0..255).  A JSON value is a record [t |-> tag, v |-> payload]:   *)
(*   "str"   v = sequence of code points                                   *)
(*   "int"   v = integer                                                   *)
(*   "float" v = the number's lexeme (sequence of code points)             *)
(*   "lit"   v = "null" | "true" | "false" | "NaN" | "Infinity" |          *)
(*               "-Infinity"                                               *)
(*   "arr"   v = sequence of JSON values                                   *)
(*   "obj"   v = sequence of [k |-> key text, val |-> JSON value],         *)
(*               keys distinct, in insertion order (a Python dict)         *)
(***************************************************************************)
EXTENDS Integers, Sequences, FiniteSets, TLC

\* ------------------------------------------------------------------------
\* Text literals of the source, as code points
\* ------------------------------------------------------------------------
KeyType == <<116, 121, 112, 101>>                                  \* type
KeyMail == <<109, 97, 105, 108>>                                   \* mail
KeyName == <<110, 97, 109, 101>>                                   \* name
TxtShutdown == <<115, 104, 117, 116, 100, 111, 119, 110>>          \* shutdown
TxtInstance == <<110, 111, 100, 101, 95, 109, 97, 105, 108, 101, 114, 95,
                 105, 110, 115, 116, 97, 110, 99, 101>>            \* node_mailer_instance
FieldSenderName == <<115, 101, 110, 100, 101, 114, 95, 110, 97, 109, 101>>  \* sender_name
FieldMessage == <<109, 101, 115, 115, 97, 103, 101>>               \* message
FieldNodeString == <<110, 111, 100, 101, 95, 115, 116, 114, 105, 110, 103>> \* node_string
FieldTimestamp == <<116, 105, 109, 101, 115, 116, 97, 109, 112>>   \* timestamp
HexDigits == <<48, 49, 50, 51, 52, 53, 54, 55, 56, 57, 97, 98, 99, 100, 101, 102>>

JStr(s) == [t |-> "str", v |-> s]
JInt(n) == [t |-> "int", v |-> n]
JObj(pairs) == [t |-> "obj", v |-> pairs]
JArr(items) == [t |-> "arr", v |-> items]
JNull == [t |-> "lit", v |-> "null"]

\* Python's == on two decoded values (tags first, so that payloads of
\* different types are never compared).
JEq(a, b) == a.t = b.t /\ a.v = b.v

\* Code point of s at 1-based position i, -1 past the end (s[i:i+1] == "").
At(s, i) == IF i >= 1 /\ i <= Len(s) THEN s[i] ELSE -1

Slice(s, i, j) == IF j < i THEN << >> ELSE SubSeq(s, i, IF j > Len(s) THEN Len(s) ELSE j)

\* ------------------------------------------------------------------------
\* str.encode("utf-8") and bytes.decode("utf-8"), strict error handling
\* ------------------------------------------------------------------------
IsSurrogate(cp) == cp >= 55296 /\ cp <= 57343

encode_char(cp) ==
    IF cp < 128 THEN <<cp>>
    ELSE IF cp < 2048 THEN <<192 + (cp \div 64), 128 + (cp % 64)>>
    ELSE IF cp < 65536 THEN <<224 + (cp \div 4096), 128 + ((cp \div 64) % 64), 128 + (cp % 64)>>
    ELSE <<240 + (cp \div 262144), 128 + ((cp \div 4096) % 64),
           128 + ((cp \div 64) % 64), 128 + (cp % 64)>>

\* The concatenation of parts[lo..hi].
RECURSIVE Flatten(_, _, _)
Flatten(parts, lo, hi) ==
    IF lo > hi THEN << >>
    ELSE IF lo = hi THEN parts[lo]
    ELSE Flatten(parts, lo, (lo + hi) \div 2) \o Flatten(parts, ((lo + hi) \div 2) + 1, hi)

\* [ok, bytes]: ok = FALSE is UnicodeEncodeError (a lone surrogate).
encode_utf8(text) ==
    IF \E i \in 1..Len(text) : IsSurrogate(text[i]) THEN [ok |-> FALSE, bytes |-> << >>]
    ELSE [ok |-> TRUE,
          bytes |-> Flatten([i \in 1..Len(text) |-> encode_char(text[i])], 1, Len(text))]

IsCont(b) == b >= 128 /\ b <= 191

\* The number of bytes the lead byte b0 announces; 0 for a byte that cannot
\* start a character.
CharLen(b0) ==
    IF b0 < 128 THEN 1
    ELSE IF b0 >= 194 /\ b0 <= 223 THEN 2
    ELSE IF b0 >= 224 /\ b0 <= 239 THEN 3
    ELSE IF b0 >= 240 /\ b0 <= 244 THEN 4
    ELSE 0

\* The character starting at i is well formed and is followed by the start
\* of another character or by the end of the data.
CharOk(bytes, i) ==
    LET b0 == bytes[i]
        b1 == At(bytes, i + 1)
    IN  /\ CharLen(b0) > 0
        /\ \A j \in 1..(CharLen(b0) - 1) : IsCont(At(bytes, i + j))
        /\ ~IsCont(At(bytes, i + CharLen(b0)))
        /\ (b0 = 224 => b1 >= 160)
        /\ (b0 = 237 => b1 <= 159)
        /\ (b0 = 240 => b1 >= 144)
        /\ (b0 = 244 => b1 <= 143)

CodePoint(bytes, i) ==
    LET b0 == bytes[i]
    IN  IF b0 < 128 THEN b0
        ELSE IF b0 <= 223 THEN (b0 - 192) * 64 + (bytes[i + 1] - 128)
        ELSE IF b0 <= 239
             THEN (b0 - 224) * 4096 + (bytes[i + 1] - 128) * 64 + (bytes[i + 2] - 128)
        ELSE (b0 - 240) * 262144 + (bytes[i + 1] - 128) * 4096
             + (bytes[i + 2] - 128) * 64 + (bytes[i + 3] - 128)

\* The positions of the bytes that are no continuation bytes.
CharStarts(bytes) ==
    SelectSeq([i \in 1..Len(bytes) |-> i], LAMBDA i : ~IsCont(bytes[i]))

DecodeAt(bytes, starts) ==
    IF /\ bytes # << >> => ~IsCont(bytes[1])
       /\ \A k \in 1..Len(starts) : CharOk(bytes, starts[k])
    THEN [ok |-> TRUE, text |-> [k \in 1..Len(starts) |-> CodePoint(bytes, starts[k])]]
    ELSE [ok |-> FALSE, text |-> << >>]

\* [ok, text]: ok = FALSE is UnicodeDecodeError (invalid start byte, invalid
\* continuation byte, or unexpected end of data).
decode_utf8(bytes) == DecodeAt(bytes, CharStarts(bytes))

\* ------------------------------------------------------------------------
\* json.dumps (default options: ensure_ascii, separators ", " and ": ")
\* ------------------------------------------------------------------------
Hex4(n) == << HexDigits[((n \div 4096) % 16) + 1], HexDigits[((n \div 256) % 16) + 1],
              HexDigits[((n \div 16) % 16) + 1], HexDigits[(n % 16) + 1] >>

\* One character of a string, as json.encoder.py_encode_basestring_ascii
\* writes it.
\* Mutant: only the quote is escaped.
escape_char_quote_only(cp) == IF cp = 34 THEN <<92, 34>> ELSE <<cp>>

escape_char(cp) ==
    IF cp = 34 THEN <<92, 34>>
    ELSE IF cp = 92 THEN <<92, 92>>
    ELSE IF cp = 10 THEN <<92, 110>>
    ELSE IF cp = 13 THEN <<92, 114>>
    ELSE IF cp = 9 THEN <<92, 116>>
    ELSE IF cp = 12 THEN <<92, 102>>
    ELSE IF cp = 8 THEN <<92, 98>>
    ELSE IF cp >= 32 /\ cp <= 126 THEN <<cp>>
    ELSE IF cp < 65536 THEN <<92, 117>> \o Hex4(cp)
    ELSE LET v == cp - 65536
         IN  <<92, 117>> \o Hex4(55296 + (v \div 1024)) \o
             <<92, 117>> \o Hex4(56320 + (v % 1024))

escape_string(s) == Flatten([i \in 1..Len(s) |-> escape_char(s[i])], 1, Len(s))

RECURSIVE DecimalDigits(_)
DecimalDigits(n) == IF n < 10 THEN <<48 + n>> ELSE Append(DecimalDigits(n \div 10), 48 + (n % 10))

int_repr(n) == IF n < 0 THEN <<45>> \o DecimalDigits(-n) ELSE DecimalDigits(n)

LitText(name) ==
    CASE name = "null" -> <<110, 117, 108, 108>>
      [] name = "true" -> <<116, 114, 117, 101>>
      [] name = "false" -> <<102, 97, 108, 115, 101>>
      [] name = "NaN" -> <<78, 97, 78>>
      [] name = "Infinity" -> <<73, 110, 102, 105, 110, 105, 116, 121>>
      [] name = "-Infinity" -> <<45, 73, 110, 102, 105, 110, 105, 116, 121>>

RECURSIVE json_dumps(_), DumpItems(_, _), DumpPairs(_, _)
json_dumps(val) ==
    CASE val.t = "str" -> <<34>> \o escape_string(val.v) \o <<34>>
      [] val.t = "int" -> int_repr(val.v)
      [] val.t = "float" -> val.v
      [] val.t = "lit" -> LitText(val.v)
      [] val.t = "arr" -> <<91>> \o DumpItems(val.v, 1) \o <<93>>
      [] val.t = "obj" -> <<123>> \o DumpPairs(val.v, 1) \o <<125>>

DumpItems(items, i) ==
    IF i > Len(items) THEN << >>
    ELSE (IF i > 1 THEN <<44, 32>> ELSE << >>) \o json_dumps(items[i]) \o DumpItems(items, i + 1)

DumpPairs(pairs, i) ==
    IF i > Len(pairs) THEN << >>
    ELSE (IF i > 1 THEN <<44, 32>> ELSE << >>)
         \o <<34>> \o escape_string(pairs[i].k) \o <<34, 58, 32>>
         \o json_dumps(pairs[i].val) \o DumpPairs(pairs, i + 1)

\* ------------------------------------------------------------------------
\* json.loads (json.decoder / json.scanner, strict mode)
\* A scan result is [ok, val, pos]: pos is the position after the value;
\* ok = FALSE is json.JSONDecodeError.
\* ------------------------------------------------------------------------
Whitespace == {32, 9, 10, 13}
IsDigit(c) == c >= 48 /\ c <= 57
HexVal(c) ==
    IF c >= 48 /\ c <= 57 THEN c - 48
    ELSE IF c >= 97 /\ c <= 102 THEN c - 87
    ELSE IF c >= 65 /\ c <= 70 THEN c - 55
    ELSE -1

ScanFail == [ok |-> FALSE, val |-> JNull, pos |-> 0]
ScanOk(val, pos) == [ok |-> TRUE, val |-> val, pos |-> pos]

RECURSIVE SkipWs(_, _)
SkipWs(s, i) == IF At(s, i) \in Whitespace THEN SkipWs(s, i + 1) ELSE i

RECURSIVE SkipDigits(_, _)
SkipDigits(s, i) == IF IsDigit(At(s, i)) THEN SkipDigits(s, i + 1) ELSE i

\* _decode_uXXXX: the four hex digits at i..i+3, -1 when they are not.
HexValue4(h1, h2, h3, h4) ==
    IF h1 < 0 \/ h2 < 0 \/ h3 < 0 \/ h4 < 0 THEN -1
    ELSE h1 * 4096 + h2 * 256 + h3 * 16 + h4
decode_uXXXX(s, i) ==
    HexValue4(HexVal(At(s, i)), HexVal(At(s, i + 1)), HexVal(At(s, i + 2)), HexVal(At(s, i + 3)))

UnescapeSimple(c) ==
    CASE c = 34 -> 34
      [] c = 92 -> 92
      [] c = 47 -> 47
      [] c = 98 -> 8
      [] c = 102 -> 12
      [] c = 110 -> 10
      [] c = 114 -> 13
      [] c = 116 -> 9
      [] OTHER -> -1

\* py_scanstring: i is the position after the opening quote.
RECURSIVE scanstring(_, _, _), ScanUnicode(_, _, _, _), ScanSurrogate(_, _, _, _, _)
scanstring(s, i, acc) ==
    LET c == At(s, i)
        esc == At(s, i + 1)
    IN  IF c = -1 THEN ScanFail                         \* unterminated string
        ELSE IF c = 34 THEN ScanOk(JStr(acc), i + 1)
        ELSE IF c < 32 THEN ScanFail                    \* invalid control character
        ELSE IF c # 92 THEN scanstring(s, i + 1, Append(acc, c))
        ELSE IF esc = -1 THEN ScanFail
        ELSE IF esc = 117 THEN ScanUnicode(s, i, acc, decode_uXXXX(s, i + 2))
        ELSE IF UnescapeSimple(esc) < 0 THEN ScanFail
        ELSE scanstring(s, i + 2, Append(acc, UnescapeSimple(esc)))

\* The escape \uXXXX at i with value uni; a high surrogate followed by
\* another \u escape is joined with it when that is a low surrogate.
ScanUnicode(s, i, acc, uni) ==
    IF uni < 0 THEN ScanFail
    ELSE IF uni >= 55296 /\ uni <= 56319 /\ At(s, i + 6) = 92 /\ At(s, i + 7) = 117
    THEN ScanSurrogate(s, i, acc, uni, decode_uXXXX(s, i + 8))
    ELSE scanstring(s, i + 6, Append(acc, uni))

ScanSurrogate(s, i, acc, uni, uni2) ==
    IF uni2 < 0 THEN ScanFail
    ELSE IF uni2 >= 56320 /\ uni2 <= 57343
    THEN scanstring(s, i + 12, Append(acc, 65536 + (uni - 55296) * 1024 + (uni2 - 56320)))
    ELSE scanstring(s, i + 6, Append(acc, uni))

RECURSIVE ParseNat(_, _, _, _)
ParseNat(s, i, j, acc) == IF i > j THEN acc ELSE ParseNat(s, i + 1, j, acc * 10 + (s[i] - 48))

\* NUMBER_RE: (-?(?:0|[1-9]\d*))(\.\d+)?([eE][-+]?\d+)? matched at i.
\* The end of each part is the position after it.
IntPartEnd(s, d0) == IF At(s, d0) = 48 THEN d0 + 1 ELSE SkipDigits(s, d0)
FracPartEnd(s, intEnd) ==
    IF At(s, intEnd) = 46 /\ IsDigit(At(s, intEnd + 1)) THEN SkipDigits(s, intEnd + 1) ELSE intEnd
ExpDigits(s, fracEnd) == IF At(s, fracEnd + 1) \in {43, 45} THEN fracEnd + 2 ELSE fracEnd + 1
ExpPartEnd(s, fracEnd) ==
    IF At(s, fracEnd) \in {101, 69} /\ IsDigit(At(s, ExpDigits(s, fracEnd)))
    THEN SkipDigits(s, ExpDigits(s, fracEnd)) ELSE fracEnd
NumberValue(s, i, d0, intEnd, numEnd) ==
    IF numEnd = intEnd
    THEN ScanOk(JInt(IF d0 > i THEN -ParseNat(s, d0, intEnd - 1, 0)
                     ELSE ParseNat(s, d0, intEnd - 1, 0)), intEnd)
    ELSE ScanOk([t |-> "float", v |-> SubSeq(s, i, numEnd - 1)], numEnd)
NumberFrom(s, i, d0, intEnd) == NumberValue(s, i, d0, intEnd, ExpPartEnd(s, FracPartEnd(s, intEnd)))
scan_number(s, i, d0) ==
    IF ~IsDigit(At(s, d0)) THEN ScanFail ELSE NumberFrom(s, i, d0, IntPartEnd(s, d0))

StartsWith(s, i, word) == Slice(s, i, i + Len(word) - 1) = word

\* Last value wins for a repeated key, at the key's first position (dict).
RECURSIVE PutPair(_, _, _)
PutPair(pairs, k, val) ==
    IF pairs = << >> THEN << [k |-> k, val |-> val] >>
    ELSE IF Head(pairs).k = k THEN << [k |-> k, val |-> val] >> \o Tail(pairs)
    ELSE << Head(pairs) >> \o PutPair(Tail(pairs), k, val)

RECURSIVE scan_once(_, _), JSONObject(_, _, _), JSONArray(_, _, _),
          ObjectColon(_, _, _), ObjectValue(_, _, _, _), ObjectNext(_, _, _),
          ObjectNextKey(_, _, _), ArrayNext(_, _, _)

\* The number at i, else NaN / Infinity / -Infinity, else StopIteration.
NumberOrConstant(s, i, number) ==
    IF number.ok THEN number
    ELSE IF StartsWith(s, i, LitText("NaN")) THEN ScanOk([t |-> "lit", v |-> "NaN"], i + 3)
    ELSE IF StartsWith(s, i, LitText("Infinity")) THEN ScanOk([t |-> "lit", v |-> "Infinity"], i + 8)
    ELSE IF StartsWith(s, i, LitText("-Infinity")) THEN ScanOk([t |-> "lit", v |-> "-Infinity"], i + 9)
    ELSE ScanFail

\* j is the first position after "{" that is no whitespace.
ObjectStart(s, j) ==
    IF At(s, j) = 125 THEN ScanOk(JObj(<< >>), j + 1)
    ELSE IF At(s, j) # 34 THEN ScanFail
    ELSE JSONObject(s, j + 1, << >>)

\* j is the first position after "[" that is no whitespace.
ArrayStart(s, j) ==
    IF At(s, j) = 93 THEN ScanOk(JArr(<< >>), j + 1) ELSE JSONArray(s, j, << >>)

scan_once(s, i) ==
    LET c == At(s, i)
    IN  IF c = -1 THEN ScanFail
        ELSE IF c = 34 THEN scanstring(s, i + 1, << >>)
        ELSE IF c = 123 THEN ObjectStart(s, SkipWs(s, i + 1))
        ELSE IF c = 91 THEN ArrayStart(s, SkipWs(s, i + 1))
        ELSE IF c = 110 /\ StartsWith(s, i, LitText("null")) THEN ScanOk(JNull, i + 4)
        ELSE IF c = 116 /\ StartsWith(s, i, LitText("true"))
             THEN ScanOk([t |-> "lit", v |-> "true"], i + 4)
        ELSE IF c = 102 /\ StartsWith(s, i, LitText("false"))
             THEN ScanOk([t |-> "lit", v |-> "false"], i + 5)
        ELSE NumberOrConstant(s, i, scan_number(s, i, IF c = 45 THEN i + 1 ELSE i))

\* JSONObject: i is the position after the opening quote of the next key.
JSONObject(s, i, pairs) == ObjectColon(s, pairs, scanstring(s, i, << >>))

ObjectColon(s, pairs, key) ==
    IF ~key.ok THEN ScanFail
    ELSE IF At(s, SkipWs(s, key.pos)) # 58 THEN ScanFail
    ELSE ObjectValue(s, pairs, key.val.v, scan_once(s, SkipWs(s, SkipWs(s, key.pos) + 1)))

ObjectValue(s, pairs, k, value) ==
    IF ~value.ok THEN ScanFail
    ELSE ObjectNext(s, PutPair(pairs, k, value.val), SkipWs(s, value.pos))

ObjectNext(s, pairs, next) ==
    IF At(s, next) = 125 THEN ScanOk(JObj(pairs), next + 1)
    ELSE IF At(s, next) # 44 THEN ScanFail
    ELSE ObjectNextKey(s, pairs, SkipWs(s, next + 1))

ObjectNextKey(s, pairs, q) ==
    IF At(s, q) # 34 THEN ScanFail ELSE JSONObject(s, q + 1, pairs)

\* JSONArray: i is the position of the next item.
JSONArray(s, i, items) == ArrayNext(s, items, scan_once(s, i))

ArrayNext(s, items, value) ==
    IF ~value.ok THEN ScanFail
    ELSE IF At(s, SkipWs(s, value.pos)) = 93
         THEN ScanOk(JArr(Append(items, value.val)), SkipWs(s, value.pos) + 1)
    ELSE IF At(s, SkipWs(s, value.pos)) # 44 THEN ScanFail
    ELSE JSONArray(s, SkipWs(s, SkipWs(s, value.pos) + 1), Append(items, value.val))

\* [ok, val]: ok = FALSE is json.JSONDecodeError (no value, or extra data
\* after it).
LoadsResult(s, r) ==
    IF At(s, 1) = 65279 \/ ~r.ok THEN [ok |-> FALSE, val |-> JNull]
    ELSE IF SkipWs(s, r.pos) # Len(s) + 1 THEN [ok |-> FALSE, val |-> JNull]
    ELSE [ok |-> TRUE, val |-> r.val]

json_loads(s) == LoadsResult(s, scan_once(s, SkipWs(s, 1)))

\* dict lookup: parsed[key]; KeyError when HasKey is FALSE.
HasKey(obj, key) == \E i \in 1..Len(obj.v) : obj.v[i].k = key
GetKey(obj, key) == obj.v[CHOOSE i \in 1..Len(obj.v) : obj.v[i].k = key].val

\* ========================================================================
\* ClientDiscovery (models/discovery.py)
\* ========================================================================
VARIABLES
    mailing_clients,     \* ClientDiscovery.mailing_clients: list of NodeMailerClient
    favorites_setting,   \* QSettings value "node_mailer/favorites": JSON text
    now,                 \* datetime.now().timestamp(), in whole seconds
    stale_timer_due,     \* next timeout of stale_client_timer
    event,               \* the handler that ran last and what it did
    expired              \* name and favorite flag of each client when it was last dropped as stale

discoveryVars == <<mailing_clients, favorites_setting, now, stale_timer_due, event, expired>>

VARIABLES
    connections,        \* every TCP connection made to the server, by socket number
    open_connections,   \* DirectMessaging.open_connections: list of socket numbers
    emitted,            \* the signals the server has emitted, in order
    connect_calls,      \* how many outbound connections have been attempted
    last_send           \* what the last send_mail_to_client call did

messagingVars == <<connections, open_connections, emitted, connect_calls, last_send>>

VARIABLES
    rt_mail,            \* the mail handed to send_mail_to_client
    rt_wire,            \* the bytes written for it
    rt_received         \* what process_received_message made of them

roundTripVars == <<rt_mail, rt_wire, rt_received>>

VARIABLES
    peer_running,        \* another instance, the peer, is running and announcing itself
    broadcast_timer_due, \* next timeout of the peer's broadcast_timer
    in_flight,           \* datagrams the peer has written, neither delivered nor lost yet
    pending,             \* datagrams in udp_socket, not yet read by on_datagram_received
    lost                 \* whether the network has lost a datagram of the peer

presenceVars == <<peer_running, broadcast_timer_due, in_flight, pending, lost>>

VARIABLES
    mail_history,        \* HistoryStorage.mail_history: list of NodeMailerMail
    database,            \* rows of table node_mailer_history, in rowid order
    popups,              \* the mail_received calls that have not returned, innermost last
    journal,             \* what the mail_received calls did with their mails, in order
    selected_row,        \* row of the index selected in the mailing window's list view
    selected_client,     \* the client that was in that row when the user selected it
    message_text,        \* MailingWindow.message_text_edit
    window_open,         \* whether the mailing window is shown
    send_outcome         \* what the last press of the Send button did

historyVars == <<mail_history, database>>
receiveVars == <<popups, journal>>
mailingVars == <<selected_row, selected_client, message_text, window_open, send_outcome>>
appVars == <<historyVars, receiveVars, mailingVars>>

vars == <<discoveryVars, messagingVars, roundTripVars, presenceVars, appVars>>

StaleSeconds == 30
StaleTimerInterval == 30
MaxTime == 59

\* Seconds by which the clock moves between two handled events.
TimeSteps == {29, 30}

LocalAddresses == {"192.168.0.22"}
RemoteAddresses == {"10.0.0.5", "10.0.0.6"}
Addresses == LocalAddresses \cup RemoteAddresses

NameAlice == <<97, 108, 105, 99, 101>>     \* alice
NameBob == <<98, 111, 98>>                 \* bob
Names == {NameAlice, NameBob}

get_broadcast_message(login_name) ==
    json_dumps(JObj(<< [k |-> KeyType, val |-> JStr(TxtInstance)],
                       [k |-> KeyName, val |-> JStr(login_name)] >>))

\* Datagram bodies seen on the broadcast port: the announcements of the
\* peers, and foreign traffic (text that is no JSON, an object without a
\* name, a JSON number).
ForeignBodies ==
    { <<114, 97, 110, 100, 111, 109, 110, 111, 110, 106, 115, 111, 110,
        115, 116, 114, 105, 110, 103>>,                                \* randomnonjsonstring
      <<123, 34, 116, 101, 115, 116, 34, 58, 32, 34, 116, 101, 115, 116, 34, 125>>,  \* {"test": "test"}
      <<53>> }                                                         \* 5
DatagramBodies ==
    { encode_utf8(get_broadcast_message(n)).bytes : n \in Names } \cup ForeignBodies

\* json.loads(datagram.data().data().decode("utf-8")) of every body:
\* [decoded, ok, val].
parse_datagram(data) ==
    LET decoded == decode_utf8(data)
        parsed == json_loads(decoded.text)
    IN  [decoded |-> decoded.ok, ok |-> decoded.ok /\ parsed.ok,
         val |-> IF decoded.ok /\ parsed.ok THEN parsed.val ELSE JNull]
ParsedDatagrams == [data \in DatagramBodies |-> parse_datagram(data)]

\* Favorites lists an earlier session can have left in QSettings.
StoredFavorites ==
    { << >>, <<NameAlice>>, <<NameBob>>, <<NameAlice, NameBob>>, <<NameBob, NameAlice>> }
FavoritesText(names) == json_dumps(JArr([i \in 1..Len(names) |-> JStr(names[i])]))

NodeMailerClient(name, ip_address, favorite, last_seen_timestamp) ==
    [name |-> name, ip_address |-> ip_address, favorite |-> favorite,
     last_seen_timestamp |-> last_seen_timestamp]

IsFavoriteClient(client) == client.favorite
IsOtherClient(client) == ~client.favorite

RECURSIVE Reverse(_)
Reverse(items) == IF items = << >> THEN << >> ELSE Append(Reverse(Tail(items)), Head(items))

\* Mutant: an ascending sort that is then reversed, which also reverses
\* the clients of equal favorite value.
sort_by_favorites_reversed(clients) ==
    Reverse(SelectSeq(clients, IsOtherClient) \o SelectSeq(clients, IsFavoriteClient))

\* list.sort(key=favorite, reverse=True): a stable sort, favorites first.
sort_by_favorites(clients) ==
    SelectSeq(clients, IsFavoriteClient) \o SelectSeq(clients, IsOtherClient)

\* Mutant: no datagram is filtered.
should_datagram_be_processed_always(datagram) == TRUE

\* Mutant: no datagram is processed.
should_datagram_be_processed_never(datagram) == FALSE

should_datagram_be_processed(datagram) == datagram.sender \notin LocalAddresses

\* Mutant: the lookup loop returns None after looking at the first client.
get_stored_client_first_only(clients, name) ==
    IF Len(clients) >= 1 /\ JEq(clients[1].name, name) THEN 1 ELSE 0

\* Row (1-based) of the first stored client with this name, 0 for None.
get_stored_client_from_name(clients, name) ==
    IF \E i \in 1..Len(clients) : JEq(clients[i].name, name)
    THEN CHOOSE i \in 1..Len(clients) :
             /\ JEq(clients[i].name, name)
             /\ \A j \in 1..(i - 1) : ~JEq(clients[j].name, name)
    ELSE 0

\* Mutant: the client seen again is taken out and appended as a new one.
update_client_as_new(clients, row, t) ==
    [i \in 1..Len(clients) |->
        IF i < row THEN clients[i]
        ELSE IF i < Len(clients) THEN clients[i + 1]
        ELSE [clients[row] EXCEPT !.last_seen_timestamp = t]]

update_client_last_seen_timestamp(clients, row, t) ==
    [clients EXCEPT ![row].last_seen_timestamp = t]

InList(items, val) == \E i \in 1..Len(items) : JEq(items[i], val)

\* Mutant: the persisted favorites are not consulted.
is_favorite_never(setting, client_name) == FALSE

is_favorite(setting, client_name) == InList(json_loads(setting).val.v, client_name)

\* [clients, outcome, row]: the new list, what happened ("JSONDecodeError" and
\* "KeyError" are caught and return silently, "TypeError" and
\* "UnicodeDecodeError" leave the handler as exceptions), and the row of the
\* client updated or added (0 for none).
process_datagram(clients, setting, t, datagram) ==
    LET parsed == ParsedDatagrams[datagram.data]
        none(outcome) == [clients |-> clients, outcome |-> outcome, row |-> 0]
    IN  IF ~parsed.decoded THEN none("UnicodeDecodeError")
        ELSE IF ~parsed.ok THEN none("JSONDecodeError")
        ELSE IF parsed.val.t # "obj" THEN none("TypeError")
        ELSE IF ~HasKey(parsed.val, KeyName) THEN none("KeyError")
        ELSE LET mailer_client_name == GetKey(parsed.val, KeyName)
                 stored == get_stored_client_from_name(clients, mailer_client_name)
             IN  IF stored # 0
                 THEN [clients |-> update_client_last_seen_timestamp(clients, stored, t),
                       outcome |-> "updated", row |-> stored]
                 ELSE LET sorted == sort_by_favorites(Append(clients,
                                        NodeMailerClient(mailer_client_name, datagram.sender,
                                            is_favorite(setting, mailer_client_name), t)))
                      IN  [clients |-> sorted, outcome |-> "added",
                           row |-> get_stored_client_from_name(sorted, mailer_client_name)]

\* Mutant: a client is dropped only when it is more than 30 s old.
FreshClientUpTo30(client) == now - client.last_seen_timestamp <= StaleSeconds

\* Mutant: a client seen 29 s ago is already stale.
FreshClientUnder29(client) == now - client.last_seen_timestamp < StaleSeconds - 1

FreshClient(client) == now - client.last_seen_timestamp < StaleSeconds

\* Mutant: the timer's handler keeps every client.
remove_stale_clients_keep_all(clients) == clients

remove_stale_clients(clients) == SelectSeq(clients, FreshClient)

RECURSIVE RemoveFirst(_, _)
RemoveFirst(items, val) ==
    IF items = << >> THEN << >>
    ELSE IF JEq(Head(items), val) THEN Tail(items)
    ELSE << Head(items) >> \o RemoveFirst(Tail(items), val)

\* Mutant: the new favorite is written to QSettings twice.
add_favorite_twice(setting, client_name) ==
    json_dumps(JArr(Append(Append(json_loads(setting).val.v, client_name), client_name)))

\* Mutant: the new favorite is not written to QSettings.
add_favorite_not_saved(setting, client_name) == setting

add_favorite(setting, client_name) ==
    json_dumps(JArr(Append(json_loads(setting).val.v, client_name)))

\* Mutant: the favorite is not taken out of QSettings.
remove_favorite_not_saved(setting, client_name) == setting

\* list.remove raises ValueError when the name is not in the list.
remove_favorite(setting, client_name) ==
    json_dumps(JArr(RemoveFirst(json_loads(setting).val.v, client_name)))

\* Mutant: the client's flag is not flipped.
toggle_favorite_no_flip(clients, row) == clients

toggle_favorite(clients, row) ==
    sort_by_favorites([clients EXCEPT ![row].favorite = ~clients[row].favorite])

\* op: the handler; sender: the datagram's sender address; outcome: what the
\* handler did; row: the row of the client it touched (0 for none);
\* removed: how many clients it removed; index_row: the index.row() that
\* toggle_favorite was called with (0 for the other handlers).
Event(op, sender, outcome, row, removed) ==
    [op |-> op, sender |-> sender, outcome |-> outcome, row |-> row, removed |-> removed,
     index_row |-> 0]

ToggleEvent(index_row, outcome, row) ==
    [op |-> "toggle", sender |-> "", outcome |-> outcome, row |-> row, removed |-> 0,
     index_row |-> index_row]

Expiry(client) == [name |-> client.name, favorite |-> client.favorite]

\* The clients of the list that remove_stale_clients does not keep.
Dropped(clients) ==
    { Expiry(clients[i]) : i \in { j \in 1..Len(clients) :
          get_stored_client_from_name(remove_stale_clients(clients), clients[j].name) = 0 } }

DiscoveryInit ==
    /\ mailing_clients = << >>
    /\ favorites_setting \in { FavoritesText(f) : f \in StoredFavorites }
    /\ now = 0
    /\ stale_timer_due = StaleTimerInterval
    /\ event = Event("init", "", "", 0, 0)
    /\ expired = {}

\* The clock advances.
Tick(d) ==
    /\ now + d <= MaxTime
    /\ now' = now + d
    /\ event' = Event("tick", "", "", 0, 0)
    /\ UNCHANGED <<mailing_clients, favorites_setting, stale_timer_due, expired>>
    /\ UNCHANGED <<messagingVars, roundTripVars, presenceVars, appVars>>

\* udp_socket.readyRead: one pending datagram of the loop.
OnDatagramReceived(sender, data) ==
    LET datagram == [sender |-> sender, data |-> data]
        r == IF should_datagram_be_processed(datagram)
             THEN process_datagram(mailing_clients, favorites_setting, now, datagram)
             ELSE [clients |-> mailing_clients, outcome |-> "not_processed", row |-> 0]
    IN  /\ mailing_clients' = r.clients
        /\ event' = Event("datagram", sender, r.outcome, r.row, 0)
        /\ UNCHANGED <<favorites_setting, now, stale_timer_due, expired>>
        /\ UNCHANGED <<messagingVars, roundTripVars, presenceVars, appVars>>

\* stale_client_timer.timeout
RemoveStaleClients ==
    /\ now >= stale_timer_due
    /\ mailing_clients' = remove_stale_clients(mailing_clients)
    /\ stale_timer_due' = stale_timer_due + StaleTimerInterval
    /\ event' = Event("remove_stale", "", "", 0, Len(mailing_clients) - Len(mailing_clients'))
    /\ expired' = { e \in expired : \A d \in Dropped(mailing_clients) : ~JEq(d.name, e.name) }
                      \cup Dropped(mailing_clients)
    /\ UNCHANGED <<favorites_setting, now>>
    /\ UNCHANGED <<messagingVars, roundTripVars, presenceVars, appVars>>

\* The 1-based row that the list subscript mailing_clients[index_row] reads:
\* a negative subscript counts from the end of the list, and a subscript
\* outside the list raises IndexError (0 here).
Subscript(clients, index_row) ==
    IF index_row >= 0
    THEN IF index_row < Len(clients) THEN index_row + 1 ELSE 0
    ELSE IF 0 - index_row <= Len(clients) THEN Len(clients) + index_row + 1 ELSE 0

\* The row of a QModelIndex: 0-based for a valid index, -1 for an invalid one.
IndexRows == (0 - 1)..(Cardinality(Names) - 1)

\* toggle_favorite(index), by list_view.doubleClicked or by any other caller.
ToggleFavorite(index_row) ==
    LET row == Subscript(mailing_clients, index_row)
        client == mailing_clients[row]
        stored == json_loads(favorites_setting).val.v
    IN  /\ IF row = 0
           THEN /\ event' = ToggleEvent(index_row, "IndexError", 0)
                /\ UNCHANGED <<mailing_clients, favorites_setting>>
           ELSE IF client.favorite /\ ~InList(stored, client.name)
           THEN /\ event' = ToggleEvent(index_row, "ValueError", row)
                /\ UNCHANGED <<mailing_clients, favorites_setting>>
           ELSE /\ favorites_setting' =
                       IF client.favorite
                       THEN remove_favorite(favorites_setting, client.name)
                       ELSE add_favorite(favorites_setting, client.name)
                /\ mailing_clients' = toggle_favorite(mailing_clients, row)
                /\ event' = ToggleEvent(index_row, IF client.favorite THEN "removed" ELSE "added",
                                        get_stored_client_from_name(mailing_clients', client.name))
        /\ UNCHANGED <<now, stale_timer_due, expired>>
        /\ UNCHANGED <<messagingVars, roundTripVars, presenceVars, appVars>>

DiscoveryNext ==
    \/ \E d \in TimeSteps : Tick(d)
    \/ \E sender \in Addresses, data \in DatagramBodies : OnDatagramReceived(sender, data)
    \/ RemoveStaleClients
    \/ \E index_row \in IndexRows : ToggleFavorite(index_row)

\* ========================================================================
\* Two instances: a peer that announces itself, and the listener above
\* ========================================================================
BroadcastInterval == 2
MaxClock == 90

PeerAddress == "10.0.0.6"
PeerName == NameAlice
PeerDatagram ==
    [sender |-> PeerAddress, data |-> encode_utf8(get_broadcast_message(PeerName)).bytes]

PresenceIdle ==
    /\ peer_running = FALSE
    /\ broadcast_timer_due = BroadcastInterval
    /\ in_flight = << >>
    /\ pending = << >>
    /\ lost = FALSE

\* Both instances have just been started.
PresenceInit ==
    /\ peer_running = TRUE
    /\ broadcast_timer_due = BroadcastInterval
    /\ in_flight = << >>
    /\ pending = << >>
    /\ lost = FALSE

\* The timers that are running, and the next moment one of them is due.
DueTimes == {stale_timer_due} \cup (IF peer_running THEN {broadcast_timer_due} ELSE {})
NextDue == CHOOSE t \in DueTimes : \A u \in DueTimes : t <= u

\* The clock runs on to the next timeout. The event loops handle what is
\* due before that: a timeout at its time, a datagram when it arrives.
TimePasses ==
    /\ in_flight = << >> /\ pending = << >>
    /\ now < NextDue /\ NextDue <= MaxClock
    /\ now' = NextDue
    /\ event' = Event("tick", "", "", 0, 0)
    /\ UNCHANGED <<mailing_clients, favorites_setting, stale_timer_due, expired>>
    /\ UNCHANGED <<messagingVars, roundTripVars, presenceVars, appVars>>

\* Mutant: a failed writeDatagram ends the broadcasting of the peer.
BroadcastPresenceUntilFailure(send_ok) ==
    /\ peer_running
    /\ now >= broadcast_timer_due
    /\ broadcast_timer_due' = broadcast_timer_due + BroadcastInterval
    /\ in_flight' = IF send_ok THEN Append(in_flight, PeerDatagram) ELSE in_flight
    /\ peer_running' = send_ok
    /\ event' = Event("broadcast", PeerAddress, IF send_ok THEN "sent" ELSE "failed", 0, 0)
    /\ UNCHANGED <<pending, lost>>
    /\ UNCHANGED <<mailing_clients, favorites_setting, now, stale_timer_due, expired>>
    /\ UNCHANGED <<messagingVars, roundTripVars, appVars>>

\* broadcast_timer.timeout -> broadcast_presence of the peer; send_ok says
\* whether writeDatagram could send the datagram (it returns -1 otherwise).
BroadcastPresence(send_ok) ==
    /\ peer_running
    /\ now >= broadcast_timer_due
    /\ broadcast_timer_due' = broadcast_timer_due + BroadcastInterval
    /\ in_flight' = IF send_ok THEN Append(in_flight, PeerDatagram) ELSE in_flight
    /\ event' = Event("broadcast", PeerAddress, IF send_ok THEN "sent" ELSE "failed", 0, 0)
    /\ UNCHANGED <<peer_running, pending, lost>>
    /\ UNCHANGED <<mailing_clients, favorites_setting, now, stale_timer_due, expired>>
    /\ UNCHANGED <<messagingVars, roundTripVars, appVars>>

\* The peer is closed: its timers stop.
StopPeer ==
    /\ peer_running
    /\ peer_running' = FALSE
    /\ event' = Event("stop", PeerAddress, "", 0, 0)
    /\ UNCHANGED <<broadcast_timer_due, in_flight, pending, lost>>
    /\ UNCHANGED <<mailing_clients, favorites_setting, now, stale_timer_due, expired>>
    /\ UNCHANGED <<messagingVars, roundTripVars, appVars>>

\* UDP loses the datagram.
LoseDatagram ==
    /\ in_flight # << >>
    /\ in_flight' = Tail(in_flight)
    /\ lost' = TRUE
    /\ event' = Event("lost", Head(in_flight).sender, "", 0, 0)
    /\ UNCHANGED <<peer_running, broadcast_timer_due, pending>>
    /\ UNCHANGED <<mailing_clients, favorites_setting, now, stale_timer_due, expired>>
    /\ UNCHANGED <<messagingVars, roundTripVars, appVars>>

\* UDP delivers the datagram to the listener's socket.
DeliverDatagram ==
    /\ in_flight # << >>
    /\ in_flight' = Tail(in_flight)
    /\ pending' = Append(pending, Head(in_flight))
    /\ event' = Event("delivered", Head(in_flight).sender, "", 0, 0)
    /\ UNCHANGED <<peer_running, broadcast_timer_due, lost>>
    /\ UNCHANGED <<mailing_clients, favorites_setting, now, stale_timer_due, expired>>
    /\ UNCHANGED <<messagingVars, roundTripVars, appVars>>

\* The loop of on_datagram_received over the pending datagrams: the list
\* after the last of them, and what was done with the last of them.
RECURSIVE receive_pending(_, _, _, _, _)
receive_pending(clients, setting, t, datagrams, last) ==
    IF datagrams = << >> THEN last
    ELSE receive_pending(
             IF should_datagram_be_processed(Head(datagrams))
             THEN process_datagram(clients, setting, t, Head(datagrams)).clients
             ELSE clients,
             setting, t, Tail(datagrams),
             IF should_datagram_be_processed(Head(datagrams))
             THEN process_datagram(clients, setting, t, Head(datagrams))
             ELSE [clients |-> clients, outcome |-> "not_processed", row |-> 0])

\* udp_socket.readyRead -> on_datagram_received
OnPendingDatagrams ==
    /\ pending # << >>
    /\ mailing_clients' =
           receive_pending(mailing_clients, favorites_setting, now, pending,
                           [clients |-> mailing_clients, outcome |-> "", row |-> 0]).clients
    /\ event' =
           Event("datagram", pending[Len(pending)].sender,
                 receive_pending(mailing_clients, favorites_setting, now, pending,
                                 [clients |-> mailing_clients, outcome |-> "", row |-> 0]).outcome,
                 receive_pending(mailing_clients, favorites_setting, now, pending,
                                 [clients |-> mailing_clients, outcome |-> "", row |-> 0]).row, 0)
    /\ pending' = << >>
    /\ UNCHANGED <<peer_running, broadcast_timer_due, in_flight, lost>>
    /\ UNCHANGED <<favorites_setting, now, stale_timer_due, expired>>
    /\ UNCHANGED <<messagingVars, roundTripVars, appVars>>

PresenceNext ==
    \/ TimePasses
    \/ \E send_ok \in BOOLEAN : BroadcastPresence(send_ok)
    \/ StopPeer
    \/ LoseDatagram
    \/ DeliverDatagram
    \/ OnPendingDatagrams
    \/ RemoveStaleClients

\* The event loop of each instance runs a handler whose timeout or
\* readyRead is due, the clock runs on, and the network does not hold a
\* datagram for ever.
PresenceFairness ==
    /\ WF_vars(TimePasses)
    /\ WF_vars(\E send_ok \in BOOLEAN : BroadcastPresence(send_ok))
    /\ WF_vars(LoseDatagram \/ DeliverDatagram)
    /\ WF_vars(OnPendingDatagrams)
    /\ WF_vars(RemoveStaleClients)

\* ========================================================================
\* DirectMessaging (models/messaging.py)
\* ========================================================================
MaxConnects == 1
MaxChunkBytes == 2

NodeMailerMail(sender_name, message, node_string, timestamp) ==
    [sender_name |-> sender_name, message |-> message,
     node_string |-> node_string, timestamp |-> timestamp]

NoMail == NodeMailerMail(JNull, JNull, JNull, JNull)

MailEq(a, b) ==
    /\ JEq(a.sender_name, b.sender_name) /\ JEq(a.message, b.message)
    /\ JEq(a.node_string, b.node_string) /\ JEq(a.timestamp, b.timestamp)

\* NodeMailerMail.as_dict: the four fields in declaration order.
as_dict(mail) ==
    JObj(<< [k |-> FieldSenderName, val |-> mail.sender_name],
            [k |-> FieldMessage, val |-> mail.message],
            [k |-> FieldNodeString, val |-> mail.node_string],
            [k |-> FieldTimestamp, val |-> mail.timestamp] >>)

MailFields == {FieldSenderName, FieldMessage, FieldNodeString, FieldTimestamp}

\* NodeMailerMail(**d): [ok, mail]; ok = FALSE is TypeError (d is no mapping,
\* a field is missing, or there is an unexpected keyword).
MailFromDict(d) ==
    IF d.t = "obj" /\ Len(d.v) = 4 /\ \A f \in MailFields : HasKey(d, f)
    THEN [ok |-> TRUE,
          mail |-> NodeMailerMail(GetKey(d, FieldSenderName), GetKey(d, FieldMessage),
                                  GetKey(d, FieldNodeString), GetKey(d, FieldTimestamp))]
    ELSE [ok |-> FALSE, mail |-> NoMail]

\* What process_received_message does with a buffer: outcome ("ok", or the
\* exception: JSONDecodeError is caught, KeyError and TypeError leave the
\* slot), the signal emitted ("none" for none) with its mail, and whether
\* the connection was removed from open_connections.
Processed(outcome, signal, mail, removed) ==
    [outcome |-> outcome, signal |-> signal, mail |-> mail, removed |-> removed]

ProcessMail(made) ==
    IF ~made.ok THEN Processed("TypeError", "none", NoMail, FALSE)
    ELSE Processed("ok", "message_received", made.mail, TRUE)

\* Mutant: the shutdown envelope is not recognised and is handled as a mail.
ProcessParsedShutdownAsMail(parsed) ==
    IF ~parsed.ok THEN Processed("JSONDecodeError", "none", NoMail, FALSE)
    ELSE IF parsed.val.t # "obj" THEN Processed("TypeError", "none", NoMail, FALSE)
    ELSE IF ~HasKey(parsed.val, KeyType) THEN Processed("KeyError", "none", NoMail, FALSE)
    ELSE IF ~HasKey(parsed.val, KeyMail) THEN Processed("KeyError", "none", NoMail, FALSE)
    ELSE ProcessMail(MailFromDict(GetKey(parsed.val, KeyMail)))

ProcessParsed(parsed) ==
    IF ~parsed.ok THEN Processed("JSONDecodeError", "none", NoMail, FALSE)
    ELSE IF parsed.val.t # "obj" THEN Processed("TypeError", "none", NoMail, FALSE)
    ELSE IF ~HasKey(parsed.val, KeyType) THEN Processed("KeyError", "none", NoMail, FALSE)
    ELSE IF JEq(GetKey(parsed.val, KeyType), JStr(TxtShutdown))
         THEN Processed("ok", "shutdown_received", NoMail, FALSE)
    ELSE IF ~HasKey(parsed.val, KeyMail) THEN Processed("KeyError", "none", NoMail, FALSE)
    ELSE ProcessMail(MailFromDict(GetKey(parsed.val, KeyMail)))

process_received_message(message) == ProcessParsed(json_loads(message))

\* Mutant: the buffer is replaced by the newest chunk.
on_message_received_overwrite(message, decoded) ==
    IF decoded.ok THEN decoded.text ELSE message

\* connection.message += readAll().data().decode("utf-8"): a chunk that
\* does not decode raises UnicodeDecodeError and is lost.
on_message_received(message, decoded) ==
    IF decoded.ok THEN message \o decoded.text ELSE message

\* The bytes send_mail_to_client writes for a mail.
MailPayload(mail) ==
    encode_utf8(json_dumps(JObj(<< [k |-> KeyType, val |-> JStr(KeyMail)],
                                   [k |-> KeyMail, val |-> as_dict(mail)] >>))).bytes

\* What a send did: the exception it raised ("none" for none), the number of
\* connection attempts, the bytes written, and whether it reached
\* disconnectFromHost() and close().
Sent(raised, attempts, written, closed) ==
    [raised |-> raised, attempts |-> attempts, written |-> written, closed |-> closed]

\* Mutant: the failed connect is not raised and the payload is written.
send_mail_to_client_no_raise(mail, client, connected, peer_drops) ==
    Sent("none", 1, MailPayload(mail), TRUE)

\* send_mail_to_client: connected is the answer of waitForConnected(500);
\* peer_drops says that the peer drops the connection before the bytes are
\* written. The results of write() and waitForBytesWritten() are not looked
\* at, so the call returns normally either way.
send_mail_to_client(mail, client, connected, peer_drops) ==
    IF ~connected THEN Sent("ConnectionError", 1, << >>, FALSE)
    ELSE IF peer_drops THEN Sent("none", 1, << >>, TRUE)
    ELSE Sent("none", 1, MailPayload(mail), TRUE)

ServerAddress == "10.0.0.5"
ListeningAddresses == {ServerAddress}
TargetClients ==
    { [name |-> JStr(NameAlice), ip_address |-> ServerAddress,
       favorite |-> FALSE, last_seen_timestamp |-> 0],
      [name |-> JStr(NameBob), ip_address |-> "10.0.0.6",
       favorite |-> FALSE, last_seen_timestamp |-> 0] }

\* {sender_name: e-acute, message: a quote and a backslash, node_string: "QQ==",
\*  timestamp: 1000}
MailEscaped == NodeMailerMail(JStr(<<233>>), JStr(<<34, 92>>), JStr(<<81, 81, 61, 61>>),
                              JInt(1000))
MessagingMails == {MailEscaped}

\* Payloads of senders other than send_mail_to_client.
PayloadNotJson == <<110, 111, 116, 32, 106, 115, 111, 110>>          \* not json
PayloadShutdown == encode_utf8(json_dumps(JObj(<< [k |-> KeyType, val |-> JStr(TxtShutdown)] >>))).bytes
\* {"type":"shutdown","<e-acute>":0} with the e-acute as the two bytes C3 A9
PayloadRawUtf8 ==
    <<123, 34, 116, 121, 112, 101, 34, 58, 34, 115, 104, 117, 116, 100,
      111, 119, 110, 34, 44, 34, 195, 169, 34, 58, 48, 125>>
ForeignPayloads == {PayloadNotJson, PayloadShutdown, PayloadRawUtf8}

\* Mutant: the failed connect to the local instance is raised.
send_shutdown_message_raising(connected) ==
    IF ~connected THEN Sent("ConnectionError", 1, << >>, FALSE)
    ELSE Sent("none", 1, PayloadShutdown, TRUE)

\* send_shutdown_message: connected is the answer of waitForConnected(500)
\* for the connection to localhost.
send_shutdown_message(connected) ==
    IF ~connected THEN Sent("none", 1, << >>, FALSE)
    ELSE Sent("none", 1, PayloadShutdown, TRUE)

\* A connection: who made it (origin, and the mail for send_mail_to_client),
\* the bytes written to it (sent) and those not yet read by the server
\* (wire), the socket's state at the server ("Pending" before
\* nextPendingConnection, "Receiving", "Closed" after disconnected), the
\* ReceivingConnection's message, the number of chunks that raised
\* UnicodeDecodeError, what process_received_message did, and whether the
\* sender has closed its socket.
Connection(origin, mail, payload) ==
    [origin |-> origin, mail |-> mail, sent |-> payload, wire |-> payload,
     state |-> "Pending", message |-> << >>, lost_chunks |-> 0,
     result |-> Processed("", "none", NoMail, FALSE), sender_closed |-> TRUE]

ConnectionIds == 1..Len(connections)

MessagingInit ==
    /\ connections = << >>
    /\ open_connections = << >>
    /\ emitted = << >>
    /\ connect_calls = 0
    /\ last_send = [op |-> "none", connected |-> FALSE, write_failed |-> FALSE, conn |-> 0,
                    result |-> Sent("none", 0, << >>, FALSE)]

\* send_mail_to_client(mail, client); the connection is established only
\* when the client's address is listening, and may time out even then. A
\* peer that drops the connection before the write never reads it.
SendMailToClient(mail, client, connected, peer_drops) ==
    /\ connect_calls < MaxConnects
    /\ connected => client.ip_address \in ListeningAddresses
    /\ peer_drops => connected
    /\ connect_calls' = connect_calls + 1
    /\ connections' =
           IF connected /\ ~peer_drops
           THEN Append(connections,
                       [Connection("send_mail_to_client", mail,
                                   send_mail_to_client(mail, client, connected, peer_drops).written)
                           EXCEPT !.sender_closed =
                               send_mail_to_client(mail, client, connected, peer_drops).closed])
           ELSE connections
    /\ last_send' = [op |-> "send_mail_to_client", connected |-> connected,
                     write_failed |-> peer_drops,
                     conn |-> IF connected /\ ~peer_drops THEN Len(connections) + 1 ELSE 0,
                     result |-> send_mail_to_client(mail, client, connected, peer_drops)]
    /\ UNCHANGED <<open_connections, emitted>>
    /\ UNCHANGED <<discoveryVars, roundTripVars, presenceVars, appVars>>

\* send_shutdown_message(), by a process on the machine of the server; the
\* connection is established only when the server is listening.
SendShutdownMessage(connected) ==
    /\ connect_calls < MaxConnects
    /\ connect_calls' = connect_calls + 1
    /\ connections' =
           IF connected
           THEN Append(connections,
                       [Connection("send_shutdown_message", NoMail,
                                   send_shutdown_message(connected).written)
                           EXCEPT !.sender_closed = send_shutdown_message(connected).closed])
           ELSE connections
    /\ last_send' = [op |-> "send_shutdown_message", connected |-> connected,
                     write_failed |-> FALSE,
                     conn |-> IF connected THEN Len(connections) + 1 ELSE 0,
                     result |-> send_shutdown_message(connected)]
    /\ UNCHANGED <<open_connections, emitted>>
    /\ UNCHANGED <<discoveryVars, roundTripVars, presenceVars, appVars>>

\* Another program connects to the messaging port, writes payload and
\* disconnects.
ForeignSend(payload) ==
    /\ connect_calls < MaxConnects
    /\ connect_calls' = connect_calls + 1
    /\ connections' = Append(connections, Connection("foreign", NoMail, payload))
    /\ UNCHANGED <<open_connections, emitted, last_send>>
    /\ UNCHANGED <<discoveryVars, roundTripVars, presenceVars, appVars>>

\* tcp_server.newConnection -> on_new_connection
OnNewConnection(c) ==
    /\ connections[c].state = "Pending"
    /\ \A b \in 1..(c - 1) : connections[b].state # "Pending"
    /\ connections' = [connections EXCEPT ![c].state = "Receiving"]
    /\ open_connections' = Append(open_connections, c)
    /\ UNCHANGED <<emitted, connect_calls, last_send>>
    /\ UNCHANGED <<discoveryVars, roundTripVars, presenceVars, appVars>>

\* Mutant: one buffer shared by the server: the chunk read from c's socket
\* is appended to the message of every connection that is receiving.
OnMessageReceivedSharedBuffer(c, k) ==
    /\ connections[c].state = "Receiving"
    /\ k >= 1 /\ k <= Len(connections[c].wire)
    /\ connections' =
           [b \in ConnectionIds |->
              [connections[b] EXCEPT
                 !.wire = IF b = c THEN SubSeq(@, k + 1, Len(@)) ELSE @,
                 !.message = IF connections[b].state = "Receiving"
                             THEN on_message_received(@, decode_utf8(SubSeq(connections[c].wire, 1, k)))
                             ELSE @]]
    /\ UNCHANGED <<open_connections, emitted, connect_calls, last_send>>
    /\ UNCHANGED <<discoveryVars, roundTripVars, presenceVars, appVars>>

\* socket.readyRead -> on_message_received, with the first k bytes of the
\* wire available to readAll().
OnMessageReceived(c, k) ==
    /\ connections[c].state = "Receiving"
    /\ k >= 1 /\ k <= Len(connections[c].wire)
    /\ connections' =
           [connections EXCEPT
              ![c].wire = SubSeq(@, k + 1, Len(@)),
              ![c].message = on_message_received(@, decode_utf8(SubSeq(connections[c].wire, 1, k))),
              ![c].lost_chunks = IF decode_utf8(SubSeq(connections[c].wire, 1, k)).ok THEN @ ELSE @ + 1]
    /\ UNCHANGED <<open_connections, emitted, connect_calls, last_send>>
    /\ UNCHANGED <<discoveryVars, roundTripVars, presenceVars, appVars>>

\* Mutant: the first connection of the list is removed.
RemoveOpenFirst(open, c) == Tail(open)

RemoveOpen(open, c) == SelectSeq(open, LAMBDA x : x # c)

Emission(c, processed) == [conn |-> c, signal |-> processed.signal, mail |-> processed.mail]

Closing(c, processed) ==
    /\ connections' = [connections EXCEPT ![c].state = "Closed", ![c].result = processed]
    /\ emitted' = IF processed.signal = "none" THEN emitted
                  ELSE Append(emitted, Emission(c, processed))
    /\ open_connections' = IF processed.removed THEN RemoveOpen(open_connections, c)
                           ELSE open_connections

\* socket.disconnected -> process_received_message, once the sender has
\* closed and every byte has been read.
ProcessReceivedMessage(c) ==
    /\ connections[c].state = "Receiving"
    /\ connections[c].sender_closed
    /\ connections[c].wire = << >>
    /\ Closing(c, process_received_message(connections[c].message))
    /\ UNCHANGED <<connect_calls, last_send>>
    /\ UNCHANGED <<discoveryVars, roundTripVars, presenceVars, appVars>>

MessagingNext ==
    \/ \E mail \in MessagingMails, client \in TargetClients, connected, peer_drops \in BOOLEAN :
           SendMailToClient(mail, client, connected, peer_drops)
    \/ \E connected \in BOOLEAN : SendShutdownMessage(connected)
    \/ \E payload \in ForeignPayloads : ForeignSend(payload)
    \/ \E c \in ConnectionIds : OnNewConnection(c)
    \/ \E c \in ConnectionIds :
           \E k \in (1..MaxChunkBytes) \cup {Len(connections[c].wire)} : OnMessageReceived(c, k)
    \/ \E c \in ConnectionIds : ProcessReceivedMessage(c)

\* ------------------------------------------------------------------------
\* Several senders at once
\* ------------------------------------------------------------------------
MaxOpenConnections == 2

PayloadEmptyObject == <<123, 125>>                                   \* {}
PayloadRawString == <<34, 195, 169, 34>>                             \* "<e-acute>" as C3 A9
PayloadTypeZero == <<123, 34, 116, 121, 112, 101, 34, 58, 48, 125>>  \* {"type":0}
ShortPayloads == {PayloadEmptyObject, PayloadRawString, PayloadTypeZero}

\* Another program connects while earlier connections are still open.
ConcurrentSend(payload) ==
    /\ connect_calls < MaxOpenConnections
    /\ connect_calls' = connect_calls + 1
    /\ connections' = Append(connections, Connection("foreign", NoMail, payload))
    /\ UNCHANGED <<open_connections, emitted, last_send>>
    /\ UNCHANGED <<discoveryVars, roundTripVars, presenceVars, appVars>>

ServerNext ==
    \/ \E payload \in ShortPayloads : ConcurrentSend(payload)
    \/ \E c \in ConnectionIds : OnNewConnection(c)
    \/ \E c \in ConnectionIds :
           \E k \in (1..MaxChunkBytes) \cup {Len(connections[c].wire)} : OnMessageReceived(c, k)
    \/ \E c \in ConnectionIds : ProcessReceivedMessage(c)

\* Every payload of the senders above: mail, shutdown, and malformed ones.
AllPayloads ==
    ShortPayloads \cup ForeignPayloads \cup { MailPayload(mail) : mail \in MessagingMails }

\* Several connections of any payload, each read with one readAll().
IsolationNext ==
    \/ \E payload \in AllPayloads : ConcurrentSend(payload)
    \/ \E c \in ConnectionIds : OnNewConnection(c)
    \/ \E c \in ConnectionIds : OnMessageReceived(c, Len(connections[c].wire))
    \/ \E c \in ConnectionIds : ProcessReceivedMessage(c)

\* ========================================================================
\* Encoding a mail and decoding the same bytes
\* ========================================================================
MaxFieldLen == 1

RECURSIVE StringsOver(_, _)
StringsOver(chars, n) ==
    IF n = 0 THEN { << >> }
    ELSE StringsOver(chars, n - 1) \cup
         { Append(w, c) : w \in StringsOver(chars, n - 1), c \in chars }

SenderNames == StringsOver({97, 233}, MaxFieldLen)              \* a, e-acute
\* quote, backslash, newline, U+1F600
Messages == StringsOver({34, 92, 10, 128512}, MaxFieldLen)
NodeStrings == StringsOver({65, 61}, MaxFieldLen)               \* base64: A, =
Timestamps == {0, 1000, 1730592000}
RoundTripMails ==
    { NodeMailerMail(JStr(s), JStr(m), JStr(n), JInt(t)) :
          s \in SenderNames, m \in Messages, n \in NodeStrings, t \in Timestamps }

NotWritten == [written |-> FALSE, bytes |-> << >>]
NotReceived == [done |-> FALSE, result |-> Processed("", "none", NoMail, FALSE)]

RoundTripIdle ==
    /\ rt_mail = NoMail
    /\ rt_wire = NotWritten
    /\ rt_received = NotReceived

RoundTripInit ==
    /\ rt_mail \in RoundTripMails
    /\ rt_wire = NotWritten
    /\ rt_received = NotReceived

\* send_mail_to_client writes the envelope of rt_mail.
RoundTripSend ==
    /\ ~rt_wire.written
    /\ rt_wire' = [written |-> TRUE,
                   bytes |-> send_mail_to_client(rt_mail, CHOOSE c \in TargetClients : TRUE,
                                                TRUE, FALSE).written]
    /\ UNCHANGED <<rt_mail, rt_received>>
    /\ UNCHANGED <<discoveryVars, messagingVars, presenceVars, appVars>>

\* The receiver reads the bytes and decodes them when the connection closes.
RoundTripReceive ==
    /\ rt_wire.written /\ ~rt_received.done
    /\ rt_received' =
           [done |-> TRUE,
            result |-> process_received_message(
                           on_message_received(<< >>, decode_utf8(rt_wire.bytes)))]
    /\ UNCHANGED <<rt_mail, rt_wire>>
    /\ UNCHANGED <<discoveryVars, messagingVars, presenceVars, appVars>>

RoundTripNext == RoundTripSend \/ RoundTripReceive

\* ========================================================================
\* HistoryStorage (models/history_storage.py)
\* ========================================================================
MaxStored == 3

\* QTextDocument.setHtml(html).toPlainText().replace("\n", " ") on the code
\* points of a message: markup between < and > is dropped, a line break
\* becomes a space.
RECURSIVE get_plain_text_from_html_string(_, _)
get_plain_text_from_html_string(html_string, in_tag) ==
    IF html_string = << >> THEN << >>
    ELSE IF Head(html_string) = 60 THEN get_plain_text_from_html_string(Tail(html_string), TRUE)
    ELSE IF Head(html_string) = 62 /\ in_tag
         THEN get_plain_text_from_html_string(Tail(html_string), FALSE)
    ELSE IF in_tag THEN get_plain_text_from_html_string(Tail(html_string), TRUE)
    ELSE <<IF Head(html_string) = 10 THEN 32 ELSE Head(html_string)>>
             \o get_plain_text_from_html_string(Tail(html_string), FALSE)

\* The mail as store_mail leaves it: mail.message is replaced in place.
PlainMail(mail) ==
    [mail EXCEPT !.message = JStr(get_plain_text_from_html_string(mail.message.v, FALSE))]

\* store_mail: mail_history.insert(0, mail) and INSERT INTO node_mailer_history.
store_mail(history, rows, mail) ==
    [mail_history |-> <<PlainMail(mail)>> \o history,
     database |-> Append(rows, PlainMail(mail))]

\* The row is one that DELETE ... WHERE encoded_node_string = ? AND
\* timestamp = ? leaves in the table.
KeptRow(row, mail) ==
    ~(JEq(row.node_string, mail.node_string) /\ JEq(row.timestamp, mail.timestamp))

\* delete_mail(index), row being index.row() + 1.
delete_mail(history, rows, row) ==
    [mail_history |-> SubSeq(history, 1, row - 1) \o SubSeq(history, row + 1, Len(history)),
     database |-> SelectSeq(rows, LAMBDA r : KeptRow(r, history[row]))]

\* ORDER BY timestamp DESC
NewestFirst(mails) ==
    \A i \in 1..(Len(mails) - 1) : mails[i].timestamp.v >= mails[i + 1].timestamp.v

\* retrieve_all_mail_from_database: the rows of the table in an order that
\* ORDER BY timestamp DESC allows (rows of one timestamp come in any order).
retrieve_all_mail_from_database(rows) ==
    { mails \in { [i \in 1..Len(rows) |-> rows[order[i]]] : order \in Permutations(1..Len(rows)) } :
          NewestFirst(mails) }

\* Received mails: node strings "QQ==" and "Qg==", sent at 100 and at 200,
\* the message a plain "hi" or the rich text "<b>hi</b>".
HistoryMails ==
    { NodeMailerMail(JStr(<<97>>), JStr(message), JStr(node_string), JInt(timestamp)) :
          message \in {<<104, 105>>, <<60, 98, 62, 104, 105, 60, 47, 98, 62>>},
          node_string \in {<<81, 81, 61, 61>>, <<81, 103, 61, 61>>},
          timestamp \in {100, 200} }

HistoryInit ==
    /\ mail_history = << >>
    /\ database = << >>

\* store_mail(mail)
StoreMail(mail) ==
    /\ Len(database) < MaxStored /\ Len(mail_history) < MaxStored
    /\ mail_history' = store_mail(mail_history, database, mail).mail_history
    /\ database' = store_mail(mail_history, database, mail).database
    /\ UNCHANGED <<receiveVars, mailingVars>>
    /\ UNCHANGED <<discoveryVars, messagingVars, roundTripVars, presenceVars>>

\* HistoryWindow.delete_selected_mail -> delete_mail(index) for the selected
\* row of the table.
DeleteMail(row) ==
    /\ row \in 1..Len(mail_history)
    /\ mail_history' = delete_mail(mail_history, database, row).mail_history
    /\ database' = delete_mail(mail_history, database, row).database
    /\ UNCHANGED <<receiveVars, mailingVars>>
    /\ UNCHANGED <<discoveryVars, messagingVars, roundTripVars, presenceVars>>

\* open_history_window -> retrieve_all_mail_from_database
OpenHistoryWindow ==
    /\ mail_history' \in retrieve_all_mail_from_database(database)
    /\ UNCHANGED <<database, receiveVars, mailingVars>>
    /\ UNCHANGED <<discoveryVars, messagingVars, roundTripVars, presenceVars>>

HistoryNext ==
    \/ \E mail \in HistoryMails : StoreMail(mail)
    \/ \E row \in 1..MaxStored : DeleteMail(row)
    \/ OpenHistoryWindow

\* ========================================================================
\* NodeMailerController.mail_received (controller.py) and ReceivedMailPopup
\* ========================================================================
OptionIgnore == "Ignore"
OptionSave == "Save"
OptionImport == "Import"
ReceivedMailPopupOption == {OptionIgnore, OptionSave, OptionImport}

\* ReceivedMailPopup(mail) once exec_() has shown it: the call of
\* mail_received it belongs to waits in loop.exec_().
ReceivedMailPopup(c, mail) ==
    [conn |-> c, mail |-> mail, open |-> TRUE, picked_option |-> OptionIgnore]

Done(op, frame) == [op |-> op, conn |-> frame.conn, picked_option |-> frame.picked_option]

\* Mutant: the nodes are imported before the mail is stored.
mail_received_import_first(frame) ==
    IF frame.picked_option = OptionIgnore THEN <<Done("return", frame)>>
    ELSE IF frame.picked_option = OptionImport
         THEN <<Done("import", frame), Done("store", frame), Done("return", frame)>>
    ELSE <<Done("store", frame), Done("return", frame)>>

\* mail_received after exec_() has returned: what it does with the mail.
mail_received(frame) ==
    IF frame.picked_option = OptionIgnore THEN <<Done("return", frame)>>
    ELSE IF frame.picked_option = OptionImport
         THEN <<Done("store", frame), Done("import", frame), Done("return", frame)>>
    ELSE <<Done("store", frame), Done("return", frame)>>

ReceiveInit ==
    /\ popups = << >>
    /\ journal = << >>

\* socket.disconnected -> process_received_message for a buffer that holds
\* a mail: message_received is emitted, the slot mail_received shows the
\* popup and waits in its event loop. The connection is still listed.
MailReceivedOpens(c) ==
    /\ connections[c].state = "Receiving"
    /\ connections[c].sender_closed
    /\ connections[c].wire = << >>
    /\ process_received_message(connections[c].message).signal = "message_received"
    /\ connections' = [connections EXCEPT
                          ![c].state = "Closed",
                          ![c].result = process_received_message(connections[c].message)]
    /\ emitted' = Append(emitted, Emission(c, process_received_message(connections[c].message)))
    /\ popups' = Append(popups,
                        ReceivedMailPopup(c, process_received_message(connections[c].message).mail))
    /\ UNCHANGED <<open_connections, connect_calls, last_send>>
    /\ UNCHANGED <<journal, historyVars, mailingVars>>
    /\ UNCHANGED <<discoveryVars, roundTripVars, presenceVars>>

\* The user clicks Ignore, Save or Import on the k-th popup, or closes it
\* (Ignore): on_save_clicked / on_import_clicked and close().
PopupClicked(k, option) ==
    /\ k \in 1..Len(popups)
    /\ popups[k].open
    /\ popups' = [popups EXCEPT ![k].open = FALSE, ![k].picked_option = option]
    /\ UNCHANGED <<journal, historyVars, mailingVars>>
    /\ UNCHANGED <<discoveryVars, messagingVars, roundTripVars, presenceVars>>

\* Mutant: when the innermost call returns, the calls it is nested in are
\* abandoned.
MailReceivedReturnsDroppingOuter ==
    /\ popups # << >>
    /\ ~popups[Len(popups)].open
    /\ journal' = journal \o mail_received(popups[Len(popups)])
    /\ mail_history' =
           IF popups[Len(popups)].picked_option = OptionIgnore THEN mail_history
           ELSE store_mail(mail_history, database, popups[Len(popups)].mail).mail_history
    /\ database' =
           IF popups[Len(popups)].picked_option = OptionIgnore THEN database
           ELSE store_mail(mail_history, database, popups[Len(popups)].mail).database
    /\ open_connections' = RemoveOpen(open_connections, popups[Len(popups)].conn)
    /\ popups' = << >>
    /\ UNCHANGED <<connections, emitted, connect_calls, last_send>>
    /\ UNCHANGED mailingVars
    /\ UNCHANGED <<discoveryVars, roundTripVars, presenceVars>>

\* The innermost event loop has been quit: exec_() returns, mail_received
\* stores and imports as picked, and process_received_message removes the
\* connection. A call that another call is nested in cannot return before
\* that one has.
MailReceivedReturns ==
    /\ popups # << >>
    /\ ~popups[Len(popups)].open
    /\ journal' = journal \o mail_received(popups[Len(popups)])
    /\ mail_history' =
           IF popups[Len(popups)].picked_option = OptionIgnore THEN mail_history
           ELSE store_mail(mail_history, database, popups[Len(popups)].mail).mail_history
    /\ database' =
           IF popups[Len(popups)].picked_option = OptionIgnore THEN database
           ELSE store_mail(mail_history, database, popups[Len(popups)].mail).database
    /\ open_connections' = RemoveOpen(open_connections, popups[Len(popups)].conn)
    /\ popups' = SubSeq(popups, 1, Len(popups) - 1)
    /\ UNCHANGED <<connections, emitted, connect_calls, last_send>>
    /\ UNCHANGED mailingVars
    /\ UNCHANGED <<discoveryVars, roundTripVars, presenceVars>>

\* Senders connect and write their mails; the popups of the mails received
\* are answered in any order.
ReceiveNext ==
    \/ \E mail \in MessagingMails : ConcurrentSend(MailPayload(mail))
    \/ \E c \in ConnectionIds : OnNewConnection(c)
    \/ \E c \in ConnectionIds : OnMessageReceived(c, Len(connections[c].wire))
    \/ \E c \in ConnectionIds : MailReceivedOpens(c)
    \/ \E k \in 1..MaxOpenConnections, option \in ReceivedMailPopupOption : PopupClicked(k, option)
    \/ MailReceivedReturns

\* ========================================================================
\* MailingWindow (user_interface/mailing.py) and NodeMailerController.send_mail
\* ========================================================================
MaxPresses == 1

TextHi == <<104, 105>>
NoClient == [name |-> JNull, ip_address |-> ""]

\* What a press of Send did: how many presses there have been, the client
\* that was selected, whether send_mail was emitted and with which client,
\* the result ("no_client_selected", "IndexError", "no_nodes_selected",
\* "ConnectionError", "sent"), whether an error popup was shown and how
\* many connections were attempted.
Pressed(presses, selected, emitted_client, result, error_popup, attempts) ==
    [presses |-> presses, selected |-> selected,
     emitted |-> emitted_client # NoClient, client |-> emitted_client,
     result |-> result, error_popup |-> error_popup, attempts |-> attempts]

MailingInit ==
    /\ selected_row = 0
    /\ selected_client = NoClient
    /\ message_text = << >>
    /\ window_open = FALSE
    /\ send_outcome = Pressed(0, NoClient, NoClient, "", FALSE, 0)

AppIdle == HistoryInit /\ ReceiveInit /\ MailingInit

\* open_mailing_window
OpenMailingWindow ==
    /\ ~window_open
    /\ window_open' = TRUE
    /\ UNCHANGED <<selected_row, selected_client, message_text, send_outcome>>
    /\ UNCHANGED <<historyVars, receiveVars>>
    /\ UNCHANGED <<discoveryVars, messagingVars, roundTripVars, presenceVars>>

\* The user clicks a client of the list: the selection model of list_view
\* holds the index of its row.
SelectClient(row) ==
    /\ window_open
    /\ row \in 1..Len(mailing_clients)
    /\ selected_row' = row
    /\ selected_client' = [name |-> mailing_clients[row].name,
                           ip_address |-> mailing_clients[row].ip_address]
    /\ UNCHANGED <<message_text, window_open, send_outcome>>
    /\ UNCHANGED <<historyVars, receiveVars>>
    /\ UNCHANGED <<discoveryVars, messagingVars, roundTripVars, presenceVars>>

\* The user types a message.
TypeMessage(text) ==
    /\ window_open
    /\ message_text # text
    /\ message_text' = text
    /\ UNCHANGED <<selected_row, selected_client, window_open, send_outcome>>
    /\ UNCHANGED <<historyVars, receiveVars>>
    /\ UNCHANGED <<discoveryVars, messagingVars, roundTripVars, presenceVars>>

\* get_mailer_client_from_index(selectedIndexes()[0]): the client that is in
\* the selected row now (NoClient when the list has no such row any more,
\* which raises IndexError).
get_mailer_client_from_index(clients, row) ==
    IF row \in 1..Len(clients)
    THEN [name |-> clients[row].name, ip_address |-> clients[row].ip_address]
    ELSE NoClient

\* The mail that send_mail builds from the message.
ComposedMail(message) == [MailEscaped EXCEPT !.message = JStr(message)]

\* Mutant: the window is cleared and closed after a failed send as well.
send_mail_always_closes(client, message, nodes_selected, connected, peer_drops) ==
    IF ~nodes_selected
    THEN [result |-> "no_nodes_selected", error_popup |-> TRUE, attempts |-> 0,
          written |-> << >>, closed |-> FALSE, clear_and_close |-> FALSE]
    ELSE [result |-> IF connected THEN "sent" ELSE "ConnectionError",
          error_popup |-> ~connected, attempts |-> 1,
          written |-> send_mail_to_client(ComposedMail(message), client, connected, peer_drops).written,
          closed |-> send_mail_to_client(ComposedMail(message), client, connected, peer_drops).closed,
          clear_and_close |-> TRUE]

\* NodeMailerController.send_mail(client, message); nodes_selected says
\* whether get_selected_nodes_as_encoded_string() returned a string.
send_mail(client, message, nodes_selected, connected, peer_drops) ==
    IF ~nodes_selected
    THEN [result |-> "no_nodes_selected", error_popup |-> TRUE, attempts |-> 0,
          written |-> << >>, closed |-> FALSE, clear_and_close |-> FALSE]
    ELSE IF send_mail_to_client(ComposedMail(message), client, connected, peer_drops).raised
                = "ConnectionError"
    THEN [result |-> "ConnectionError", error_popup |-> TRUE, attempts |-> 1,
          written |-> << >>, closed |-> FALSE, clear_and_close |-> FALSE]
    ELSE [result |-> "sent", error_popup |-> FALSE, attempts |-> 1,
          written |-> send_mail_to_client(ComposedMail(message), client, connected, peer_drops).written,
          closed |-> send_mail_to_client(ComposedMail(message), client, connected, peer_drops).closed,
          clear_and_close |-> TRUE]

\* send_button.clicked -> on_send_mail_pressed -> send_mail.emit(client,
\* message) -> NodeMailerController.send_mail
OnSendMailPressed(nodes_selected, connected, peer_drops) ==
    /\ window_open
    /\ send_outcome.presses < MaxPresses
    /\ peer_drops => connected
    /\ IF selected_row = 0
       THEN /\ ~nodes_selected /\ ~connected
            /\ send_outcome' = Pressed(send_outcome.presses + 1, selected_client, NoClient,
                                       "no_client_selected", TRUE, 0)
            /\ UNCHANGED <<message_text, window_open, messagingVars>>
       ELSE IF get_mailer_client_from_index(mailing_clients, selected_row) = NoClient
       THEN /\ ~nodes_selected /\ ~connected
            /\ send_outcome' = Pressed(send_outcome.presses + 1, selected_client, NoClient,
                                       "IndexError", FALSE, 0)
            /\ UNCHANGED <<message_text, window_open, messagingVars>>
       ELSE /\ connected =>
                  /\ nodes_selected
                  /\ get_mailer_client_from_index(mailing_clients, selected_row).ip_address
                         \in ListeningAddresses
            /\ send_outcome' =
                   Pressed(send_outcome.presses + 1, selected_client,
                           get_mailer_client_from_index(mailing_clients, selected_row),
                           send_mail(get_mailer_client_from_index(mailing_clients, selected_row),
                                     message_text, nodes_selected, connected, peer_drops).result,
                           send_mail(get_mailer_client_from_index(mailing_clients, selected_row),
                                     message_text, nodes_selected, connected, peer_drops).error_popup,
                           send_mail(get_mailer_client_from_index(mailing_clients, selected_row),
                                     message_text, nodes_selected, connected, peer_drops).attempts)
            /\ connect_calls' = connect_calls
                   + send_mail(get_mailer_client_from_index(mailing_clients, selected_row),
                               message_text, nodes_selected, connected, peer_drops).attempts
            /\ connections' =
                   IF nodes_selected /\ connected /\ ~peer_drops
                   THEN Append(connections,
                               Connection("send_mail_to_client", ComposedMail(message_text),
                                   send_mail(get_mailer_client_from_index(mailing_clients, selected_row),
                                             message_text, nodes_selected, connected, peer_drops).written))
                   ELSE connections
            /\ IF send_mail(get_mailer_client_from_index(mailing_clients, selected_row),
                            message_text, nodes_selected, connected, peer_drops).clear_and_close
               THEN message_text' = << >> /\ window_open' = FALSE
               ELSE UNCHANGED <<message_text, window_open>>
            /\ last_send' =
                   IF nodes_selected
                   THEN [op |-> "send_mail_to_client", connected |-> connected,
                         write_failed |-> peer_drops,
                         conn |-> IF connected /\ ~peer_drops THEN Len(connections) + 1 ELSE 0,
                         result |-> send_mail_to_client(ComposedMail(message_text),
                                        get_mailer_client_from_index(mailing_clients, selected_row),
                                        connected, peer_drops)]
                   ELSE last_send
            /\ UNCHANGED <<open_connections, emitted>>
    /\ UNCHANGED <<selected_row, selected_client>>
    /\ UNCHANGED <<historyVars, receiveVars>>
    /\ UNCHANGED <<discoveryVars, roundTripVars, presenceVars>>

\* The mailing window in use once the clients have announced themselves.
SendNext ==
    \/ OpenMailingWindow
    \/ \E row \in 1..Cardinality(Names) : SelectClient(row)
    \/ TypeMessage(TextHi)
    \/ \E nodes_selected, connected, peer_drops \in BOOLEAN :
           OnSendMailPressed(nodes_selected, connected, peer_drops)
    \/ \E client \in TargetClients :
           OnDatagramReceived(client.ip_address,
                              encode_utf8(get_broadcast_message(client.name.v)).bytes)

\* The mailing window in use while announcements arrive, clients go stale
\* and favorites are toggled.
MailingNext ==
    \/ OpenMailingWindow
    \/ \E row \in 1..Cardinality(Names) : SelectClient(row)
    \/ TypeMessage(TextHi)
    \/ \E nodes_selected, connected, peer_drops \in BOOLEAN :
           OnSendMailPressed(nodes_selected, connected, peer_drops)
    \/ \E client \in TargetClients :
           OnDatagramReceived(client.ip_address,
                              encode_utf8(get_broadcast_message(client.name.v)).bytes)
    \/ Tick(StaleSeconds)
    \/ RemoveStaleClients
    \/ \E index_row \in 0..(Cardinality(Names) - 1) : ToggleFavorite(index_row)

\* ========================================================================
\* ClientDiscoveryModel (networking/discovery.py)
\* ========================================================================
\* NodeMailerClient of models/data_models.py: name and ip_address only.
ListedClient(name, ip_address) == [name |-> JStr(name), ip_address |-> ip_address]

StoredAt(clients, ip_address) ==
    \E i \in 1..Len(clients) : clients[i].ip_address = ip_address

\* Mutant: only the local addresses are turned away.
ClientDiscoveryModel_should_datagram_be_processed_local_only(clients, datagram) ==
    datagram.sender \notin LocalAddresses

ClientDiscoveryModel_should_datagram_be_processed(clients, datagram) ==
    IF datagram.sender \in LocalAddresses THEN FALSE
    ELSE ~StoredAt(clients, datagram.sender)

\* process_datagram: JSONDecodeError and KeyError are caught. The client is
\* constructed with three arguments, (instance_name, address, False), and
\* the NodeMailerClient imported here takes two: the constructor raises
\* TypeError and nothing is appended.
ClientDiscoveryModel_process_datagram(clients, datagram) ==
    IF ~ParsedDatagrams[datagram.data].decoded
    THEN [clients |-> clients, outcome |-> "UnicodeDecodeError"]
    ELSE IF ~ParsedDatagrams[datagram.data].ok
    THEN [clients |-> clients, outcome |-> "JSONDecodeError"]
    ELSE IF ParsedDatagrams[datagram.data].val.t # "obj"
    THEN [clients |-> clients, outcome |-> "TypeError"]
    ELSE IF ~HasKey(ParsedDatagrams[datagram.data].val, KeyName)
    THEN [clients |-> clients, outcome |-> "KeyError"]
    ELSE [clients |-> clients, outcome |-> "TypeError in NodeMailerClient()"]

\* The lists that mailing_clients is given: the empty list of __init__, and
\* lists assigned to the attribute as test_should_datagram_be_processed
\* does, of up to two clients at different addresses.
ListedClients == { ListedClient(name, ip_address) : name \in Names, ip_address \in Addresses }
ClientLists ==
    { << >> } \cup { <<a>> : a \in ListedClients }
        \cup { pair \in ListedClients \X ListedClients : pair[1].ip_address # pair[2].ip_address }

ClientDiscoveryModelInit ==
    /\ mailing_clients \in ClientLists
    /\ favorites_setting = FavoritesText(<< >>)
    /\ now = 0
    /\ stale_timer_due = StaleTimerInterval
    /\ event = Event("init", "", "", 0, 0)
    /\ expired = {}

\* udp_socket.readyRead -> on_datagram_received, for one pending datagram.
ClientDiscoveryModelOnDatagramReceived(sender, data) ==
    /\ mailing_clients' =
           IF ClientDiscoveryModel_should_datagram_be_processed(
                  mailing_clients, [sender |-> sender, data |-> data])
           THEN ClientDiscoveryModel_process_datagram(
                    mailing_clients, [sender |-> sender, data |-> data]).clients
           ELSE mailing_clients
    /\ event' =
           Event("ClientDiscoveryModel.datagram", sender,
                 IF ClientDiscoveryModel_should_datagram_be_processed(
                        mailing_clients, [sender |-> sender, data |-> data])
                 THEN ClientDiscoveryModel_process_datagram(
                          mailing_clients, [sender |-> sender, data |-> data]).outcome
                 ELSE "not_processed", 0, 0)
    /\ UNCHANGED <<favorites_setting, now, stale_timer_due, expired>>
    /\ UNCHANGED <<messagingVars, roundTripVars, presenceVars, appVars>>

ClientDiscoveryModelNext ==
    \E sender \in Addresses, data \in DatagramBodies :
        ClientDiscoveryModelOnDatagramReceived(sender, data)

\* ========================================================================
\* Specifications
\* ========================================================================
DiscoveryIdle ==
    /\ mailing_clients = << >>
    /\ favorites_setting = FavoritesText(<< >>)
    /\ now = 0
    /\ stale_timer_due = StaleTimerInterval
    /\ event = Event("init", "", "", 0, 0)
    /\ expired = {}

DiscoveryStart == DiscoveryInit /\ MessagingInit /\ RoundTripIdle /\ PresenceIdle /\ AppIdle
DiscoverySpec == DiscoveryStart /\ [][DiscoveryNext]_vars

MessagingStart == DiscoveryIdle /\ MessagingInit /\ RoundTripIdle /\ PresenceIdle /\ AppIdle
MessagingSpec == MessagingStart /\ [][MessagingNext]_vars

IsolationStart == DiscoveryIdle /\ MessagingInit /\ RoundTripIdle /\ PresenceIdle /\ AppIdle
IsolationSpec == IsolationStart /\ [][IsolationNext]_vars

ServerStart == DiscoveryIdle /\ MessagingInit /\ RoundTripIdle /\ PresenceIdle /\ AppIdle
ServerSpec == ServerStart /\ [][ServerNext]_vars

RoundTripStart == DiscoveryIdle /\ MessagingInit /\ RoundTripInit /\ PresenceIdle /\ AppIdle
RoundTripSpec == RoundTripStart /\ [][RoundTripNext]_vars

PresenceStart == DiscoveryIdle /\ MessagingInit /\ RoundTripIdle /\ PresenceInit /\ AppIdle
PresenceSpec == PresenceStart /\ [][PresenceNext]_vars /\ PresenceFairness

HistoryStart == DiscoveryIdle /\ MessagingInit /\ RoundTripIdle /\ PresenceIdle /\ AppIdle
HistorySpec == HistoryStart /\ [][HistoryNext]_vars

ReceiveStart == DiscoveryIdle /\ MessagingInit /\ RoundTripIdle /\ PresenceIdle /\ AppIdle
ReceiveSpec == ReceiveStart /\ [][ReceiveNext]_vars

ClientDiscoveryModelStart ==
    ClientDiscoveryModelInit /\ MessagingInit /\ RoundTripIdle /\ PresenceIdle /\ AppIdle
ClientDiscoveryModelSpec == ClientDiscoveryModelStart /\ [][ClientDiscoveryModelNext]_vars

SendStart == DiscoveryIdle /\ MessagingInit /\ RoundTripIdle /\ PresenceIdle /\ AppIdle
SendSpec == SendStart /\ [][SendNext]_vars

MailingStart == DiscoveryIdle /\ MessagingInit /\ RoundTripIdle /\ PresenceIdle /\ AppIdle
MailingSpec == MailingStart /\ [][MailingNext]_vars

Init == DiscoveryInit /\ MessagingInit /\ RoundTripInit /\ PresenceInit /\ AppIdle
Next ==
    \/ DiscoveryNext \/ MessagingNext \/ RoundTripNext \/ PresenceNext
    \/ HistoryNext \/ ReceiveNext \/ SendNext \/ MailingNext
Spec == Init /\ [][Next]_vars


\* ------------------------------------------------------------------------
\* Properties of ClientDiscovery
\* ------------------------------------------------------------------------
Rows(clients) == 1..Len(clients)
Age(client) == now - client.last_seen_timestamp

\* C4: in every reachable state mailing_clients holds at most one client
\* per name.
C4_OneClientPerName ==
    \A i, j \in Rows(mailing_clients) :
        i # j => ~JEq(mailing_clients[i].name, mailing_clients[j].name)

\* A second announcement of a stored name has been processed while two
\* clients are stored.
C4_Witness ==
    /\ event.op = "datagram" /\ event.outcome = "updated"
    /\ Len(mailing_clients) = 2

\* C5: after a datagram for a stored name has been processed, the stored
\* client carries the datagram's sender address and last_seen_timestamp = now.
C5_UpsertTakesLatestObservation ==
    (event.op = "datagram" /\ event.outcome = "updated") =>
        /\ mailing_clients[event.row].ip_address = event.sender
        /\ mailing_clients[event.row].last_seen_timestamp = now

SortedByFavorites(clients) ==
    \A i, j \in Rows(clients) : (i < j /\ clients[j].favorite) => clients[i].favorite

RowOf(clients, name) == CHOOSE i \in Rows(clients) : JEq(clients[i].name, name)
Stored(clients, name) == \E i \in Rows(clients) : JEq(clients[i].name, name)

\* C7: after every mutation the favorites precede the other clients, and
\* two clients with the same favorite value keep their relative order.
C7_FavoritesFirstStable ==
    /\ SortedByFavorites(mailing_clients)
    /\ [][ /\ SortedByFavorites(mailing_clients')
           /\ \A j1, j2 \in Rows(mailing_clients') :
                  ( /\ j1 < j2
                    /\ mailing_clients'[j1].favorite = mailing_clients'[j2].favorite
                    /\ Stored(mailing_clients, mailing_clients'[j1].name)
                    /\ Stored(mailing_clients, mailing_clients'[j2].name) )
                  => RowOf(mailing_clients, mailing_clients'[j1].name)
                       < RowOf(mailing_clients, mailing_clients'[j2].name)
       ]_discoveryVars

\* A newly discovered favorite has been sorted in front of a stored client.
C7_Witness ==
    /\ event.op = "datagram" /\ event.outcome = "added" /\ event.row = 1
    /\ Len(mailing_clients) = 2
    /\ mailing_clients[1].favorite /\ ~mailing_clients[2].favorite

\* C8: a datagram whose sender address is a local address changes no client,
\* and no stored client has a local address.
C8_SelfSuppression ==
    /\ \A i \in Rows(mailing_clients) : mailing_clients[i].ip_address \notin LocalAddresses
    /\ [][ /\ (event'.op = "datagram" /\ event'.sender \in LocalAddresses)
                => mailing_clients' = mailing_clients
           /\ \A i \in Rows(mailing_clients') : mailing_clients'[i].ip_address \notin LocalAddresses
       ]_discoveryVars

\* A datagram from a local address has been dropped while a client is stored.
C8_Witness ==
    /\ event.op = "datagram" /\ event.sender \in LocalAddresses
    /\ event.outcome = "not_processed"
    /\ Len(mailing_clients) >= 1

\* C15: a processed datagram whose body is not a valid announcement (it led
\* to no client being added or updated) was discarded silently, by one of
\* the two caught exceptions, and touched no client.
C15_InvalidAnnouncementIsIgnored ==
    (event.op = "datagram" /\ event.outcome \notin {"not_processed", "added", "updated"}) =>
        /\ event.outcome \in {"JSONDecodeError", "KeyError"}
        /\ event.row = 0

\* The names in the persisted favorites.
PersistedFavorites(setting) == json_loads(setting).val.v

\* C17: a datagram that adds a client has a name that was not stored, and
\* adds exactly one client: its address is the sender's, its favorite flag
\* says whether the name is in the persisted favorites, its
\* last_seen_timestamp is now, and every client stored before is still
\* there with the same fields.
C17_FirstAnnouncementAddsClient ==
    [][(event'.op = "datagram" /\ event'.outcome = "added") =>
          /\ Len(mailing_clients') = Len(mailing_clients) + 1
          /\ event'.row \in Rows(mailing_clients')
          /\ event'.sender \notin LocalAddresses
          /\ ~Stored(mailing_clients, mailing_clients'[event'.row].name)
          /\ mailing_clients'[event'.row].ip_address = event'.sender
          /\ mailing_clients'[event'.row].last_seen_timestamp = now
          /\ mailing_clients'[event'.row].favorite =
                 (\E i \in 1..Len(PersistedFavorites(favorites_setting)) :
                      JEq(PersistedFavorites(favorites_setting)[i], mailing_clients'[event'.row].name))
          /\ \A i \in Rows(mailing_clients) :
                 \E j \in Rows(mailing_clients') \ {event'.row} :
                     mailing_clients'[j] = mailing_clients[i]
          /\ favorites_setting' = favorites_setting]_vars

C17_Witness ==
    /\ event.op = "datagram" /\ event.outcome = "added" /\ event.sender = "10.0.0.6"
    /\ Len(mailing_clients) = 2 /\ event.row = 1
    /\ JEq(mailing_clients[1].name, JStr(NameBob))
    /\ mailing_clients[1].favorite /\ mailing_clients[1].ip_address = "10.0.0.6"
    /\ mailing_clients[1].last_seen_timestamp = now /\ now = 29
    /\ mailing_clients[2].last_seen_timestamp = 0

\* C18: a client that is discovered again after remove_stale_clients dropped
\* it is created with the favorite flag it had when it was dropped, whether
\* that flag came from a toggle or from the persisted favorites.
C18_FavoriteSurvivesExpiry ==
    [][(event'.op = "datagram" /\ event'.outcome = "added") =>
          \A e \in expired :
              JEq(e.name, mailing_clients'[event'.row].name) =>
                  mailing_clients'[event'.row].favorite = e.favorite]_vars

\* bob was a favorite, was dropped as stale and is discovered again.
C18_Witness ==
    /\ event.op = "datagram" /\ event.outcome = "added"
    /\ [name |-> JStr(NameBob), favorite |-> TRUE] \in expired
    /\ event.row \in Rows(mailing_clients)
    /\ JEq(mailing_clients[event.row].name, JStr(NameBob))
    /\ mailing_clients[event.row].favorite
    /\ mailing_clients[event.row].last_seen_timestamp >= StaleSeconds
    /\ favorites_setting = FavoritesText(<<NameBob>>)

\* C19: toggle_favorite on a stored client always goes through; it flips
\* that client's favorite flag and nothing else of it, leaves its name in
\* the persisted favorites exactly when it is now a favorite, leaves the
\* other names of the persisted favorites as they were, and leaves every
\* other client in the list with the same fields.
C19_ToggleFlipsOneClient ==
    [][/\ (event'.op = "toggle" /\ Subscript(mailing_clients, event'.index_row) # 0) =>
             event'.outcome \in {"added", "removed"}
       /\ (event'.op = "toggle" /\ event'.outcome \in {"added", "removed"}) =>
             LET row == Subscript(mailing_clients, event'.index_row)
                 toggled == mailing_clients'[event'.row]
                 before == PersistedFavorites(favorites_setting)
                 after == PersistedFavorites(favorites_setting')
             IN  /\ row \in Rows(mailing_clients)
                 /\ event'.row \in Rows(mailing_clients')
                 /\ Len(mailing_clients') = Len(mailing_clients)
                 /\ toggled = [mailing_clients[row] EXCEPT !.favorite = ~@]
                 /\ toggled.favorite = (event'.outcome = "added")
                 /\ toggled.favorite = (\E i \in 1..Len(after) : JEq(after[i], toggled.name))
                 /\ \A n \in Names :
                        ~JEq(JStr(n), toggled.name) =>
                            (InList(after, JStr(n)) <=> InList(before, JStr(n)))
                 /\ \A i \in Rows(mailing_clients) \ {row} :
                        \E j \in Rows(mailing_clients') \ {event'.row} :
                            mailing_clients'[j] = mailing_clients[i]]_vars

\* alice and bob were favorites; alice, in row 0, was toggled and is now
\* listed after bob.
C19_Witness ==
    /\ event.op = "toggle" /\ event.outcome = "removed"
    /\ event.index_row = 0 /\ event.row = 2
    /\ Len(mailing_clients) = 2
    /\ JEq(mailing_clients[1].name, JStr(NameBob)) /\ mailing_clients[1].favorite
    /\ JEq(mailing_clients[2].name, JStr(NameAlice)) /\ ~mailing_clients[2].favorite
    /\ favorites_setting = FavoritesText(<<NameBob>>)

\* C20: toggle_favorite with a row that is not a row of the list (a valid
\* row is 0 .. len - 1) toggles nothing and ends in an error.
C20_ToggleOfMissingClientIsRefused ==
    (event.op = "toggle" /\ event.index_row \notin 0..(Len(mailing_clients) - 1)) =>
        event.outcome = "IndexError"

\* C26: a datagram for a name that is already stored changes nothing but the
\* last_seen_timestamp of that client, which becomes now: the list keeps
\* its length and order, every client its name, address and favorite flag,
\* and the persisted favorites stay as they are.
C26_DuplicateAnnouncementOnlyRefreshes ==
    [][(event'.op = "datagram" /\ event'.outcome = "updated") =>
          /\ event'.row \in Rows(mailing_clients)
          /\ Len(mailing_clients') = Len(mailing_clients)
          /\ \A i \in Rows(mailing_clients) \ {event'.row} :
                 mailing_clients'[i] = mailing_clients[i]
          /\ mailing_clients'[event'.row] =
                 [mailing_clients[event'.row] EXCEPT !.last_seen_timestamp = now]
          /\ favorites_setting' = favorites_setting]_vars

\* The announcement of the client in row 1 arrived again from the same
\* address, 29 s or more after the first one.
C26_Witness ==
    /\ event.op = "datagram" /\ event.outcome = "updated" /\ event.row = 1
    /\ Len(mailing_clients) = 2
    /\ mailing_clients[1].ip_address = event.sender
    /\ mailing_clients[1].last_seen_timestamp = now /\ now >= 29
    /\ mailing_clients[2].last_seen_timestamp = 0

\* C29: every stored client's favorite flag says whether its name is in the
\* persisted favorites.
C29_FlagsAgreeWithFavorites ==
    \A i \in Rows(mailing_clients) :
        mailing_clients[i].favorite =
            InList(PersistedFavorites(favorites_setting), mailing_clients[i].name)

\* After an expiry and a toggle the list holds a favorite and a client that
\* is none.
C29_Witness ==
    /\ event.op = "toggle" /\ event.outcome = "added"
    /\ expired # {}
    /\ Len(mailing_clients) = 2
    /\ mailing_clients[1].favorite /\ ~mailing_clients[2].favorite

\* C30: no name is twice in the persisted favorites, and remove_favorite
\* never meets a name that is not in the list (list.remove would raise
\* ValueError).
C30_FavoritesHaveNoDuplicates ==
    /\ \A i, j \in 1..Len(PersistedFavorites(favorites_setting)) :
           JEq(PersistedFavorites(favorites_setting)[i],
               PersistedFavorites(favorites_setting)[j]) => i = j
    /\ event.outcome # "ValueError"

\* A client that was dropped and discovered again has been toggled twice:
\* its name was added to the favorites and removed again.
C30_Witness ==
    /\ event.op = "toggle" /\ event.outcome = "removed"
    /\ expired # {} /\ now >= StaleSeconds
    /\ Len(mailing_clients) = 1
    /\ favorites_setting = FavoritesText(<< >>)

\* C31: a client that is seen again at intervals shorter than 30 s is never
\* removed: a sighting stamps the client with the current time, the stale
\* timer's handler keeps every client seen less than 30 s ago, at whatever
\* moment it runs, and no other handler takes a client off the list.
C31_LivePeerIsNeverExpired ==
    [][/\ (event'.op = "remove_stale" =>
              \A i \in Rows(mailing_clients) :
                  Age(mailing_clients[i]) < StaleSeconds =>
                      \E j \in Rows(mailing_clients') : mailing_clients'[j] = mailing_clients[i])
       /\ ((event'.op = "datagram" /\ event'.outcome \in {"added", "updated"}) =>
              mailing_clients'[event'.row].last_seen_timestamp = now)
       /\ (Len(mailing_clients') < Len(mailing_clients) => event'.op = "remove_stale")]_vars

\* The stale timer's handler ran late, 58 s after the start: it dropped a
\* client and kept the one seen 29 s before.
C31_Witness ==
    /\ event.op = "remove_stale" /\ event.removed = 1
    /\ now = 58
    /\ Len(mailing_clients) = 1
    /\ Age(mailing_clients[1]) = 29

\* ------------------------------------------------------------------------
\* Properties of two instances
\* ------------------------------------------------------------------------
PeerListed == Stored(mailing_clients, JStr(PeerName))

\* The peer has stopped and none of its datagrams is under way.
PeerSilent == ~peer_running /\ in_flight = << >> /\ pending = << >>

EvenTimeout == (broadcast_timer_due \div BroadcastInterval) % 2 = 0

\* C24: a broadcast is made when the broadcast timer is due and arms the
\* timer for 2 s later, whether the datagram could be sent or not; a failed
\* send changes nothing else and raises nothing; the timer is armed anew by
\* a broadcast only; and while the instance runs every timeout the timer
\* is armed for is followed by its broadcast (as far as the clock of the
\* model runs), so that a broadcast is attempted every 2 s.
C24_BroadcasterNeverStops ==
    /\ [][event'.op = "broadcast" =>
             /\ now = broadcast_timer_due
             /\ broadcast_timer_due' = broadcast_timer_due + BroadcastInterval
             /\ event'.outcome \in {"sent", "failed"}
             /\ peer_running'
             /\ event'.outcome = "failed" =>
                    /\ UNCHANGED <<mailing_clients, favorites_setting, now, stale_timer_due>>
                    /\ UNCHANGED <<in_flight, pending, lost>>]_vars
    /\ [][broadcast_timer_due' # broadcast_timer_due => event'.op = "broadcast"]_vars
    /\ (peer_running /\ broadcast_timer_due <= MaxClock /\ EvenTimeout)
           ~> (~peer_running \/ ~EvenTimeout)
    /\ (peer_running /\ broadcast_timer_due <= MaxClock /\ ~EvenTimeout)
           ~> (~peer_running \/ EvenTimeout)

\* The datagram of the timeout at 2 s could not be sent (it was neither
\* lost nor received); the one of the timeout at 4 s is under way.
C24_Witness ==
    /\ event.op = "broadcast" /\ event.outcome = "sent"
    /\ now = 2 * BroadcastInterval /\ broadcast_timer_due = 3 * BroadcastInterval
    /\ ~lost /\ mailing_clients = << >> /\ expired = {}
    /\ in_flight = << PeerDatagram >>

\* C27: whenever an announcement of the peer has been delivered to the
\* listener's socket, the listener comes to list a client with the peer's
\* name, whatever was lost before.
C27_DeliveredAnnouncementIsListed ==
    (pending # << >>) ~> PeerListed

\* An earlier announcement was lost; the peer is listed for the first time.
C27_Witness ==
    /\ lost /\ expired = {}
    /\ event.op = "datagram" /\ event.outcome = "added" /\ event.sender = PeerAddress
    /\ PeerListed
    /\ mailing_clients[1].last_seen_timestamp = now /\ now >= 2 * BroadcastInterval

\* ------------------------------------------------------------------------
\* Properties of DirectMessaging
\* ------------------------------------------------------------------------
EmissionsOf(c) == SelectSeq(emitted, LAMBDA e : e.conn = c)

InOpenConnections(c) == \E i \in 1..Len(open_connections) : open_connections[i] = c

\* What the server makes of a payload that arrives in a single chunk.
SingleChunk(payload) ==
    process_received_message(on_message_received(<< >>, decode_utf8(payload)))

\* C1: for every connection made by a successful send_mail_to_client of a
\* mail M, the server never emits more than once, whatever it emits for the
\* connection is message_received with a mail equal to M in all four
\* fields, and once the connection has closed it has emitted exactly once.
C1_MailEmittedExactlyOnce ==
    \A c \in ConnectionIds :
        connections[c].origin = "send_mail_to_client" =>
            /\ Len(EmissionsOf(c)) <= 1
            /\ \A i \in 1..Len(emitted) :
                   emitted[i].conn = c =>
                       /\ emitted[i].signal = "message_received"
                       /\ MailEq(emitted[i].mail, connections[c].mail)
            /\ connections[c].state = "Closed" => Len(EmissionsOf(c)) = 1

C1_Witness ==
    \E c \in ConnectionIds :
        /\ connections[c].origin = "send_mail_to_client"
        /\ connections[c].state = "Closed"
        /\ MailEq(connections[c].mail, MailEscaped)
        /\ Len(EmissionsOf(c)) = 1
        /\ last_send.connected /\ last_send.result.raised = "none"

\* C2: nothing is emitted for a connection before its disconnected event,
\* and for every split of the payload into chunks the signal and mail
\* produced at close are those produced when the whole payload arrives in a
\* single chunk.
C2_ChunkingDoesNotMatter ==
    /\ \A i \in 1..Len(emitted) : connections[emitted[i].conn].state = "Closed"
    /\ \A c \in ConnectionIds :
           connections[c].state = "Closed" =>
               /\ connections[c].result.signal = SingleChunk(connections[c].sent).signal
               /\ MailEq(connections[c].result.mail, SingleChunk(connections[c].sent).mail)

\* C3: when a connection closes with a buffer that is not JSON, no
\* message_received is emitted, the connection is removed from
\* open_connections, and no error is raised.
C3_NotJsonIsRemovedSilently ==
    \A c \in ConnectionIds :
        (connections[c].state = "Closed" /\ connections[c].result.outcome = "JSONDecodeError") =>
            /\ EmissionsOf(c) = << >>
            /\ ~InOpenConnections(c)

\* C10: a send_mail_to_client call whose connection is refused or times out
\* raises ConnectionError, has made exactly one connection attempt, has
\* written no bytes and has opened no connection at the server.
C10_FailedConnectIsRaised ==
    (last_send.op = "send_mail_to_client" /\ ~last_send.connected) =>
        /\ last_send.result.raised = "ConnectionError"
        /\ last_send.result.attempts = 1
        /\ last_send.result.written = << >>
        /\ last_send.conn = 0

C10_Witness ==
    /\ last_send.op = "send_mail_to_client" /\ ~last_send.connected
    /\ connect_calls = 1 /\ connections = << >>

\* C11: a send_mail_to_client call that connects but whose payload cannot be
\* written, because the peer drops the connection first, raises
\* ConnectionError to its caller.
C11_WriteFailureIsRaised ==
    (last_send.op = "send_mail_to_client" /\ last_send.connected /\ last_send.write_failed) =>
        last_send.result.raised = "ConnectionError"

\* The buffer parsed as JSON is exactly {"type": "shutdown"}.
IsShutdownEnvelope(parsed) ==
    /\ parsed.ok
    /\ JEq(parsed.val, JObj(<< [k |-> KeyType, val |-> JStr(TxtShutdown)] >>))

\* C12: a connection that has closed with a buffer that decodes to
\* {"type": "shutdown"} has made the server emit shutdown_received exactly
\* once and nothing else, so no message_received.
C12_ShutdownEmittedOnce ==
    \A c \in ConnectionIds :
        (connections[c].state = "Closed" /\ IsShutdownEnvelope(json_loads(connections[c].message))) =>
            EmissionsOf(c) = << [conn |-> c, signal |-> "shutdown_received", mail |-> NoMail] >>

C12_Witness ==
    \E c \in ConnectionIds :
        /\ connections[c].state = "Closed"
        /\ connections[c].sent = PayloadShutdown
        /\ connections[c].message = decode_utf8(PayloadShutdown).text
        /\ Len(emitted) = 1 /\ emitted[1].conn = c /\ emitted[1].signal = "shutdown_received"

\* C13: open_connections holds exactly the accepted connections whose buffer
\* has not been decoded: a connection is in it from its accept on, and is no
\* longer in it once it has closed and its buffer was decoded as a mail or
\* as a shutdown envelope.
C13_OpenConnectionsAreUndecoded ==
    \A c \in ConnectionIds :
        /\ connections[c].state = "Pending" => ~InOpenConnections(c)
        /\ connections[c].state = "Receiving" => InOpenConnections(c)
        /\ (/\ connections[c].state = "Closed"
            /\ connections[c].result.signal \in {"message_received", "shutdown_received"})
               => ~InOpenConnections(c)

\* The bytes of connection c that the server has read so far.
BytesRead(c) == SubSeq(connections[c].sent, 1, Len(connections[c].sent) - Len(connections[c].wire))

WellFormedMail(parsed) ==
    /\ JEq(GetKey(parsed.val, KeyType), JStr(KeyMail))
    /\ HasKey(parsed.val, KeyMail)
    /\ MailFromDict(GetKey(parsed.val, KeyMail)).ok

WellFormedEnvelope(parsed) ==
    /\ parsed.ok
    /\ parsed.val.t = "obj"
    /\ HasKey(parsed.val, KeyType)
    /\ (JEq(GetKey(parsed.val, KeyType), JStr(TxtShutdown)) \/ WellFormedMail(parsed))

\* C16: a connection that has closed with a buffer that is no well-formed
\* envelope has made the server emit nothing, has raised no error, and is
\* no longer in open_connections.
C16_MalformedEnvelopeIsDropped ==
    \A c \in ConnectionIds :
        (connections[c].state = "Closed" /\ ~WellFormedEnvelope(json_loads(connections[c].message))) =>
            /\ EmissionsOf(c) = << >>
            /\ connections[c].result.outcome \notin {"KeyError", "TypeError"}
            /\ ~InOpenConnections(c)

\* C22: send_shutdown_message never raises and makes one connection attempt;
\* when the connection fails it writes nothing and opens no connection at
\* the server; when it succeeds it writes exactly {"type": "shutdown"} and
\* closes its socket.
C22_ShutdownSendSwallowsFailure ==
    last_send.op = "send_shutdown_message" =>
        /\ last_send.result.raised = "none"
        /\ last_send.result.attempts = 1
        /\ ~last_send.connected =>
               /\ last_send.result.written = << >>
               /\ last_send.conn = 0
        /\ last_send.connected =>
               /\ last_send.result.written =
                      <<123, 34, 116, 121, 112, 101, 34, 58, 32, 34, 115, 104, 117, 116,
                        100, 111, 119, 110, 34, 125>>
               /\ last_send.result.closed
               /\ last_send.conn \in ConnectionIds
               /\ connections[last_send.conn].sent = last_send.result.written
               /\ connections[last_send.conn].sender_closed

\* Nothing listens on the local messaging port.
C22_Witness ==
    /\ last_send.op = "send_shutdown_message" /\ ~last_send.connected
    /\ connect_calls = 1 /\ connections = << >> /\ emitted = << >>

\* C23: when process_received_message runs for one connection, whatever its
\* payload, every other connection keeps its state, buffer and unread
\* bytes, the other entries of open_connections stay where they are, and
\* the connection is decoded as it would be by a server that has seen no
\* other connection.
C23_CloseIsLocalToOneConnection ==
    [][\A c \in ConnectionIds :
          (connections[c].state = "Receiving" /\ connections'[c].state = "Closed") =>
              /\ Len(connections') = Len(connections)
              /\ \A b \in ConnectionIds \ {c} : connections'[b] = connections[b]
              /\ SelectSeq(open_connections', LAMBDA x : x # c) =
                     SelectSeq(open_connections, LAMBDA x : x # c)
              /\ connections'[c].result = SingleChunk(connections[c].sent)]_vars

\* The first connection carried {} and ended in KeyError; the second one
\* carried a mail, was decoded and removed, and the first is still listed.
C23_Witness ==
    /\ Len(connections) = 2
    /\ connections[1].sent = PayloadEmptyObject /\ connections[1].state = "Closed"
    /\ connections[1].result.outcome = "KeyError"
    /\ connections[2].sent = MailPayload(MailEscaped) /\ connections[2].state = "Closed"
    /\ connections[2].result.signal = "message_received"
    /\ open_connections = <<1>>
    /\ Len(emitted) = 1 /\ emitted[1].conn = 2

\* C25: a send_mail_to_client call that returns without error has written
\* the full payload of its mail to a connection of the receiver and has
\* closed its socket.
C25_ReturnedSendWroteAndClosed ==
    (last_send.op = "send_mail_to_client" /\ last_send.result.raised = "none") =>
        /\ last_send.result.closed
        /\ last_send.conn \in ConnectionIds
        /\ connections[last_send.conn].sender_closed
        /\ connections[last_send.conn].sent = MailPayload(connections[last_send.conn].mail)

\* C28: when process_received_message has run for a connection, the bytes
\* of its buffer are all the bytes the sender wrote, in send order.
C28_BufferIsAllBytesSent ==
    \A c \in ConnectionIds :
        connections[c].state = "Closed" =>
            encode_utf8(connections[c].message).bytes = connections[c].sent

Copies(mails, mail) == Cardinality({ i \in 1..Len(mails) : mails[i] = mail })

\* C36: mail_history holds exactly the rows of the table: every mail is as
\* often in the list as it is in the table.
C36_HistoryMatchesDatabase ==
    \A mail \in { PlainMail(m) : m \in HistoryMails } :
        Copies(mail_history, mail) = Copies(database, mail)

\* C37: mail_history is ordered by timestamp, newest first, as
\* retrieve_all_mail_from_database would return the table.
C37_HistoryNewestFirst ==
    NewestFirst(mail_history)

\* ------------------------------------------------------------------------
\* Properties of mail_received
\* ------------------------------------------------------------------------
Entries(c, op) == { i \in 1..Len(journal) : journal[i].conn = c /\ journal[i].op = op }
Emissions(c) == { i \in 1..Len(emitted) : emitted[i].conn = c }
Waiting(c) == \E k \in 1..Len(popups) : popups[k].conn = c

\* C32: when a second mail arrives while the popup of the first is still
\* shown, each mail is emitted once; a call of mail_received that has
\* returned has stored and imported its mail as its own popup says, at most
\* once each, and its connection is no longer in open_connections; a call
\* that has not returned has done nothing with its mail yet.
C32_NestedDeliveryHandlesBothMails ==
    \A c \in ConnectionIds :
        /\ Cardinality(Emissions(c)) = (IF connections[c].state = "Closed" THEN 1 ELSE 0)
        /\ (connections[c].state = "Closed" /\ ~Waiting(c)) =>
               /\ Cardinality(Entries(c, "return")) = 1
               /\ \A i \in Entries(c, "return") :
                      /\ Cardinality(Entries(c, "store")) =
                             (IF journal[i].picked_option = OptionIgnore THEN 0 ELSE 1)
                      /\ Cardinality(Entries(c, "import")) =
                             (IF journal[i].picked_option = OptionImport THEN 1 ELSE 0)
               /\ ~\E i \in 1..Len(open_connections) : open_connections[i] = c
        /\ (connections[c].state # "Closed" \/ Waiting(c)) =>
               \A i \in 1..Len(journal) : journal[i].conn # c

\* The mail of connection 2 arrived while the popup of connection 1 was
\* shown; Import was picked for it and its call returned first; Save was
\* picked for the first mail. Both connections are gone from the list.
C32_Witness ==
    /\ Len(emitted) = 2 /\ emitted[1].conn = 1 /\ emitted[2].conn = 2
    /\ popups = << >>
    /\ Len(journal) = 5
    /\ journal[3] = [op |-> "return", conn |-> 2, picked_option |-> OptionImport]
    /\ journal[5] = [op |-> "return", conn |-> 1, picked_option |-> OptionSave]
    /\ open_connections = << >>
    /\ Len(database) = 2

\* C35: when a call of mail_received ends, Ignore (the option of a popup
\* closed without a choice) has neither stored nor imported the mail, Save
\* has stored it once and not imported it, and Import has stored it once
\* and then imported it.
C35_PopupChoiceDecidesFate ==
    [][journal' # journal =>
          /\ popups # << >> /\ ~popups[Len(popups)].open
          /\ popups[Len(popups)].picked_option = OptionIgnore =>
                 /\ journal' = Append(journal, Done("return", popups[Len(popups)]))
                 /\ UNCHANGED <<mail_history, database>>
          /\ popups[Len(popups)].picked_option = OptionSave =>
                 /\ journal' = journal \o <<Done("store", popups[Len(popups)]),
                                             Done("return", popups[Len(popups)])>>
                 /\ database' = Append(database, PlainMail(popups[Len(popups)].mail))
                 /\ mail_history' = <<PlainMail(popups[Len(popups)].mail)>> \o mail_history
          /\ popups[Len(popups)].picked_option = OptionImport =>
                 /\ journal' = journal \o <<Done("store", popups[Len(popups)]),
                                             Done("import", popups[Len(popups)]),
                                             Done("return", popups[Len(popups)])>>
                 /\ database' = Append(database, PlainMail(popups[Len(popups)].mail))
                 /\ mail_history' = <<PlainMail(popups[Len(popups)].mail)>> \o mail_history]_vars

\* Import was picked for the one mail received: it was stored, then imported.
C35_Witness ==
    /\ Len(journal) = 3
    /\ journal[1].op = "store" /\ journal[2].op = "import" /\ journal[3].op = "return"
    /\ journal[3].picked_option = OptionImport
    /\ Len(database) = 1 /\ Len(mail_history) = 1

\* ------------------------------------------------------------------------
\* Properties of the mailing window and of send_mail
\* ------------------------------------------------------------------------
\* C33: the client that on_send_mail_pressed emits, and that
\* send_mail_to_client connects to, is the client the user selected, also
\* when the list has changed since the selection.
C33_MailGoesToSelectedClient ==
    send_outcome.emitted => JEq(send_outcome.client.name, send_outcome.selected.name)

\* C34: a press of Send with no nodes selected attempts no connection; a
\* send that raises ConnectionError shows an error popup and leaves the
\* message text and the window as they were; the text is cleared and the
\* window closed by a send that raised no error, and by no other press.
C34_TextClearedOnlyAfterSend ==
    [][send_outcome'.presses # send_outcome.presses =>
          /\ (send_outcome'.result = "no_nodes_selected" =>
                 /\ send_outcome'.attempts = 0 /\ send_outcome'.error_popup
                 /\ UNCHANGED <<connections, connect_calls, last_send>>
                 /\ UNCHANGED <<message_text, window_open>>)
          /\ (send_outcome'.result = "ConnectionError" =>
                 /\ send_outcome'.attempts = 1 /\ send_outcome'.error_popup
                 /\ connect_calls' = connect_calls + 1
                 /\ last_send'.result.raised = "ConnectionError"
                 /\ UNCHANGED <<message_text, window_open>>)
          /\ (send_outcome'.result = "sent" =>
                 /\ send_outcome'.attempts = 1 /\ ~send_outcome'.error_popup
                 /\ last_send'.result.raised = "none"
                 /\ message_text' = << >> /\ ~window_open')
          /\ ((message_text' # message_text \/ window_open' # window_open) =>
                 send_outcome'.result = "sent")]_vars

\* Send was pressed with a message typed and nodes selected, the connection
\* failed, and the message and the window are still there.
C34_Witness ==
    /\ send_outcome.result = "ConnectionError"
    /\ send_outcome.presses = 1
    /\ message_text = TextHi
    /\ window_open

\* ------------------------------------------------------------------------
\* Properties of the encoding
\* ------------------------------------------------------------------------
\* C9: decoding the envelope that send_mail_to_client writes for a mail
\* yields message_received with a mail equal to it in sender_name, message,
\* node_string and timestamp.
C9_RoundTrip ==
    rt_received.done =>
        /\ rt_received.result.outcome = "ok"
        /\ rt_received.result.signal = "message_received"
        /\ MailEq(rt_received.result.mail, rt_mail)

C9_Witness ==
    /\ rt_received.done
    /\ MailEq(rt_mail, NodeMailerMail(JStr(<<233>>), JStr(<<128512>>), JStr(<<65>>),
                                      JInt(1730592000)))
    /\ rt_received.result.signal = "message_received"

====
